---- MODULE Spec2Model ----
(***************************************************************************)
(* A model of DeepSRT/deepsrt-mcp: the caption track selector and the      *)
(* timed-text transcript parsers of the MCP server (src/src/index.ts) and  *)
(* of the CLI (src/src/cli.ts).                                            *)
(*                                                                         *)
(* Texts are sequences of tokens.  A token is a record [k, c, t]: a        *)
(* character (k = "ch", c the character) or a markup tag (k = "open",      *)
(* "close" or "self", c the tag name, t the value of its t="..." attribute *)
(* or NoT).  The regular expressions of the parsers are modelled on token  *)
(* sequences: a tag is one token, a character is one token.                *)
(***************************************************************************)
EXTENDS Integers, Sequences, FiniteSets, TLC

(***************************************************************************)
(* Bounds of the model.                                                    *)
(***************************************************************************)
MaxTracks == 3

(***************************************************************************)
(* Caption track selector                                                  *)
(***************************************************************************)

\* captionTracks[].kind is absent for a manual track and 'asr' for an
\* auto-generated one (src/src/cli.ts:31, src/src/index.test.ts:17,23).
NoKind == "undefined"

Asr == "asr"

Kinds == {NoKind, Asr}

Langs == {"en", "fr"}

\* an omitted preferredLang argument
Undefined == "undefined"

LangArgs == {Undefined, "en", "fr", "de"}

Tracks == [languageCode : Langs, kind : Kinds]

\* selectBestCaption returns null, or one of the objects of the list: the
\* result is modelled as the position of that object in the list.
Null == 0

\* the default value of the parameter preferredLang
DefaultLang == "en"

PreferredLang(arg) == IF arg = Undefined THEN DefaultLang ELSE arg

\* !c.kind
IsManual(c) == c.kind = NoKind

\* c.kind === 'asr'
IsAuto(c) == c.kind = Asr

\* Array.prototype.find over the positions S that satisfy the predicate: the
\* first of them, and undefined (falsy, here Null) when there is none.
Find(S) == IF S = {} THEN Null ELSE CHOOSE i \in S : \A j \in S : i <= j

\* a mutant of ServerSelectBestCaption: any manual track is tried before an
\* auto-generated track in the preferred language
SelectManualBeforeLanguage(arg, preferredLang) ==
  IF ~arg.defined \/ Len(arg.list) = 0 THEN Null
  ELSE LET captions == arg.list
           idx == DOMAIN captions
           manualPreferred ==
             Find({i \in idx : captions[i].languageCode = preferredLang
                                 /\ IsManual(captions[i])})
           anyManual == Find({i \in idx : IsManual(captions[i])})
           autoPreferred ==
             Find({i \in idx : captions[i].languageCode = preferredLang
                                 /\ IsAuto(captions[i])})
       IN  IF manualPreferred # Null THEN manualPreferred
           ELSE IF anyManual # Null THEN anyManual
           ELSE IF autoPreferred # Null THEN autoPreferred
           ELSE 1

\* a mutant of ServerSelectBestCaption: the final fall-back to captions[0] is
\* missing, the result of the last find is returned as it is
SelectWithoutFallback(arg, preferredLang) ==
  IF ~arg.defined \/ Len(arg.list) = 0 THEN Null
  ELSE LET captions == arg.list
           idx == DOMAIN captions
           manualPreferred ==
             Find({i \in idx : captions[i].languageCode = preferredLang
                                 /\ IsManual(captions[i])})
           autoPreferred ==
             Find({i \in idx : captions[i].languageCode = preferredLang
                                 /\ IsAuto(captions[i])})
           anyManual == Find({i \in idx : IsManual(captions[i])})
       IN  IF manualPreferred # Null THEN manualPreferred
           ELSE IF autoPreferred # Null THEN autoPreferred
           ELSE anyManual

\* a mutant of ServerSelectBestCaption: the auto-generated track in the
\* preferred language is tried first
SelectAutoFirst(arg, preferredLang) ==
  IF ~arg.defined \/ Len(arg.list) = 0 THEN Null
  ELSE LET captions == arg.list
           idx == DOMAIN captions
           manualPreferred ==
             Find({i \in idx : captions[i].languageCode = preferredLang
                                 /\ IsManual(captions[i])})
           autoPreferred ==
             Find({i \in idx : captions[i].languageCode = preferredLang
                                 /\ IsAuto(captions[i])})
           anyManual == Find({i \in idx : IsManual(captions[i])})
       IN  IF autoPreferred # Null THEN autoPreferred
           ELSE IF manualPreferred # Null THEN manualPreferred
           ELSE IF anyManual # Null THEN anyManual
           ELSE 1

\* DeepSRTServer.selectBestCaption (src/src/index.ts)
ServerSelectBestCaption(arg, preferredLang) ==
  IF ~arg.defined \/ Len(arg.list) = 0 THEN Null
  ELSE LET captions == arg.list
           idx == DOMAIN captions
           manualPreferred ==
             Find({i \in idx : captions[i].languageCode = preferredLang
                                 /\ IsManual(captions[i])})
           autoPreferred ==
             Find({i \in idx : captions[i].languageCode = preferredLang
                                 /\ IsAuto(captions[i])})
           anyManual == Find({i \in idx : IsManual(captions[i])})
       IN  IF manualPreferred # Null THEN manualPreferred
           ELSE IF autoPreferred # Null THEN autoPreferred
           ELSE IF anyManual # Null THEN anyManual
           ELSE 1

\* DeepSRTCLI.selectBestCaption (src/src/cli.ts)
CliSelectBestCaption(arg, preferredLang) ==
  IF ~arg.defined \/ Len(arg.list) = 0 THEN Null
  ELSE LET captions == arg.list
           idx == DOMAIN captions
           manualPreferred ==
             Find({i \in idx : captions[i].languageCode = preferredLang
                                 /\ IsManual(captions[i])})
           autoPreferred ==
             Find({i \in idx : captions[i].languageCode = preferredLang
                                 /\ IsAuto(captions[i])})
           anyManual == Find({i \in idx : IsManual(captions[i])})
       IN  IF manualPreferred # Null THEN manualPreferred
           ELSE IF autoPreferred # Null THEN autoPreferred
           ELSE IF anyManual # Null THEN anyManual
           ELSE 1

\* StandaloneSummarizer.selectBestCaption (src/examples/standalone-summarizer.ts)
ExampleSelectBestCaption(arg, preferredLang) ==
  IF ~arg.defined \/ Len(arg.list) = 0 THEN Null
  ELSE LET captionTracks == arg.list
           idx == DOMAIN captionTracks
           manual ==
             Find({i \in idx : IsManual(captionTracks[i])
                                 /\ captionTracks[i].languageCode = preferredLang})
           autoGenerated ==
             Find({i \in idx : IsAuto(captionTracks[i])
                                 /\ captionTracks[i].languageCode = preferredLang})
           anyManual == Find({i \in idx : IsManual(captionTracks[i])})
           anyAuto == Find({i \in idx : IsAuto(captionTracks[i])})
       IN  IF manual # Null THEN manual
           ELSE IF autoGenerated # Null THEN autoGenerated
           ELSE IF anyManual # Null THEN anyManual
           ELSE IF anyAuto # Null THEN anyAuto
           ELSE 1

\* the track lists of at most n tracks
TrackLists(n) == UNION {[1..k -> Tracks] : k \in 0..n}

(***************************************************************************)
(* Texts                                                                   *)
(***************************************************************************)

\* a tag without a t="..." attribute
NoT == <<>>

\* the character c
Ch(c) == [k |-> "ch", c |-> c, t |-> NoT]

\* the tags <name>, <name t="ms">, </name> and <name/>
Open(name) == [k |-> "open", c |-> name, t |-> NoT]

OpenT(name, ms) == [k |-> "open", c |-> name, t |-> <<ms>>]

Close(name) == [k |-> "close", c |-> name, t |-> NoT]

\* the text of the characters cs, a sequence of one-character strings
Str(cs) == [i \in DOMAIN cs |-> Ch(cs[i])]

\* the characters JavaScript's \s and String.prototype.trim treat as
\* whitespace, as far as the model has them
Whitespace == {" ", "\n", "\t"}

IsSpace(tok) == tok.k = "ch" /\ tok.c \in Whitespace

\* the characters '.' does not match in a regular expression without the s flag
IsLineTerminator(tok) == tok.k = "ch" /\ tok.c = "\n"

\* text.includes(pat)
Includes(text, pat) ==
  \E i \in 1..(Len(text) - Len(pat) + 1) : SubSeq(text, i, i + Len(pat) - 1) = pat

\* text.replace(/pat/g, rep) for a literal pattern: the occurrences of pat are
\* replaced from left to right, and the replacement is not scanned again
RECURSIVE ReplaceAll(_, _, _)
ReplaceAll(text, pat, rep) ==
  IF Len(text) < Len(pat) THEN text
  ELSE IF SubSeq(text, 1, Len(pat)) = pat
       THEN rep \o ReplaceAll(SubSeq(text, Len(pat) + 1, Len(text)), pat, rep)
       ELSE <<text[1]>> \o ReplaceAll(Tail(text), pat, rep)

\* the entities the parsers decode, and the characters they stand for
EntAmp == Str(<<"&", "a", "m", "p", ";">>)

EntLt == Str(<<"&", "l", "t", ";">>)

EntGt == Str(<<"&", "g", "t", ";">>)

EntQuot == Str(<<"&", "q", "u", "o", "t", ";">>)

EntApos == Str(<<"&", "#", "3", "9", ";">>)

EntNbsp == Str(<<"&", "n", "b", "s", "p", ";">>)

\* the chain of replace calls of DeepSRTServer.parseXMLTranscript
ServerDecodeEntities(text) ==
  LET r1 == ReplaceAll(text, EntAmp, Str(<<"&">>))
      r2 == ReplaceAll(r1, EntLt, Str(<<"<">>))
      r3 == ReplaceAll(r2, EntGt, Str(<<">">>))
      r4 == ReplaceAll(r3, EntQuot, Str(<<"\"">>))
      r5 == ReplaceAll(r4, EntApos, Str(<<"'">>))
  IN  r5

\* the chain of replace calls of DeepSRTCLI.parseXMLTranscript
CliDecodeEntities(text) ==
  LET r1 == ReplaceAll(text, EntAmp, Str(<<"&">>))
      r2 == ReplaceAll(r1, EntLt, Str(<<"<">>))
      r3 == ReplaceAll(r2, EntGt, Str(<<">">>))
      r4 == ReplaceAll(r3, EntQuot, Str(<<"\"">>))
      r5 == ReplaceAll(r4, EntApos, Str(<<"'">>))
      r6 == ReplaceAll(r5, EntNbsp, Str(<<" ">>))
  IN  r6

(***************************************************************************)
(* Whitespace, filters and timestamps                                      *)
(***************************************************************************)

\* the leftmost position of a set of positions; 0 when there is none
Leftmost(S) == IF S = {} THEN 0 ELSE CHOOSE i \in S : \A j \in S : i <= j

RECURSIVE TrimStart(_)
TrimStart(text) ==
  IF text # <<>> /\ IsSpace(Head(text)) THEN TrimStart(Tail(text)) ELSE text

RECURSIVE TrimEnd(_)
TrimEnd(text) ==
  IF text # <<>> /\ IsSpace(text[Len(text)])
  THEN TrimEnd(SubSeq(text, 1, Len(text) - 1))
  ELSE text

\* text.trim()
Trim(text) == TrimEnd(TrimStart(text))

\* text.replace(/\n/g, ' ')
NewlinesToSpaces(text) ==
  [i \in DOMAIN text |-> IF text[i] = Ch("\n") THEN Ch(" ") ELSE text[i]]

\* text.replace(/\s+/g, ' ')
RECURSIVE CollapseSpaces(_)
CollapseSpaces(text) ==
  IF text = <<>> THEN <<>>
  ELSE IF IsSpace(Head(text)) THEN <<Ch(" ")>> \o CollapseSpaces(TrimStart(text))
  ELSE <<Head(text)>> \o CollapseSpaces(Tail(text))

\* text.match(/^\[.*\]$/)
MatchesBracketPattern(text) ==
  /\ Len(text) >= 2
  /\ text[1] = Ch("[")
  /\ text[Len(text)] = Ch("]")
  /\ \A i \in 2..(Len(text) - 1) : ~IsLineTerminator(text[i])

\* the music note U+266A
NoteGlyph == Ch("U+266A")

\* the literal the MCP server compares a text with (src/src/index.ts:429):
\* three music notes
ServerMusicLiteral == <<NoteGlyph, NoteGlyph, NoteGlyph>>

\* the literal the CLI compares a text with (src/src/cli.ts:181): the nine
\* characters U+201A U+00F4 U+2122, three times
CliMusicLiteral ==
  Str(<<"U+201A", "U+00F4", "U+2122", "U+201A", "U+00F4", "U+2122",
        "U+201A", "U+00F4", "U+2122">>)

Digits == <<"0", "1", "2", "3", "4", "5", "6", "7", "8", "9">>

\* n.toString()
RECURSIVE NumberToString(_)
NumberToString(n) ==
  IF n < 10 THEN <<Digits[n + 1]>> ELSE NumberToString(n \div 10) \o <<Digits[(n % 10) + 1]>>

\* s.padStart(2, '0')
PadStart2(s) == IF Len(s) >= 2 THEN s ELSE IF Len(s) = 1 THEN <<"0">> \o s ELSE <<"0", "0">>

\* a mutant of FormatTimestamp: the minutes are the minutes of the hour
FormatTimestampOfHour(ms) ==
  LET totalSeconds == ms \div 1000
      minutes == (totalSeconds \div 60) % 60
      seconds == totalSeconds % 60
  IN  <<"[">> \o PadStart2(NumberToString(minutes)) \o <<":">>
        \o PadStart2(NumberToString(seconds)) \o <<"]">>

\* formatTimestamp, the same in the MCP server and in the CLI
FormatTimestamp(milliseconds) ==
  LET totalSeconds == milliseconds \div 1000
      minutes == totalSeconds \div 60
      seconds == totalSeconds % 60
  IN  <<"[">> \o PadStart2(NumberToString(minutes)) \o <<":">>
        \o PadStart2(NumberToString(seconds)) \o <<"]">>

(***************************************************************************)
(* The regular expressions of the parsers                                  *)
(***************************************************************************)

\* xmlContent.includes('<timedtext')
IncludesTimedtext(xmlContent) ==
  \E i \in DOMAIN xmlContent : xmlContent[i].k = "open" /\ xmlContent[i].c = "timedtext"

\* <p[^>]*t="(\d+)"[^>]*> matches the tag
IsPStart(tok) == tok.k = "open" /\ tok.c = "p" /\ tok.t # NoT

\* /<p[^>]*t="(\d+)"[^>]*>(.*?)<\/p>/ tried at position i: the position of the
\* </p> that ends the match, 0 when there is no match at i.  The lazy group
\* ends at the first </p>; without the s flag it cannot cross a line break.
PMatchEnd(text, i, dotAll) ==
  IF ~IsPStart(text[i]) THEN 0
  ELSE LET j == Leftmost({m \in (i + 1)..Len(text) : text[m] = Close("p")})
       IN  IF j = 0 THEN 0
           ELSE IF dotAll \/ \A m \in (i + 1)..(j - 1) : ~IsLineTerminator(text[m])
                THEN j
                ELSE 0

\* regex.exec(text) of the p regex with the g flag: the start of the leftmost
\* match at or after lastIndex, 0 for null
PExec(text, lastIndex, dotAll) ==
  Leftmost({i \in lastIndex..Len(text) : PMatchEnd(text, i, dotAll) # 0})

\* /<\/?s[^>]*>/ matches the tag
IsSTag(tok) == tok.k \in {"open", "close"} /\ tok.c = "s"

NotSTag(tok) == ~IsSTag(tok)

\* /<s[^>]*>(.*?)<\/s>/ (no s flag) tried at position i: the position of the
\* </s> that ends the match, 0 when there is no match at i
SMatchEnd(text, i) ==
  IF ~(text[i].k = "open" /\ text[i].c = "s") THEN 0
  ELSE LET j == Leftmost({m \in (i + 1)..Len(text) : text[m] = Close("s")})
       IN  IF j = 0 THEN 0
           ELSE IF \A m \in (i + 1)..(j - 1) : ~IsLineTerminator(text[m])
                THEN j
                ELSE 0

\* sTagRegex.exec(pContent)
SExec(text, lastIndex) ==
  Leftmost({i \in lastIndex..Len(text) : SMatchEnd(text, i) # 0})

\* xmlContent.match(/<body>(.*?)<\/body>/s): the position of the <body> of
\* the leftmost match, 0 for null
BodyMatch(xmlContent) ==
  Leftmost({i \in DOMAIN xmlContent :
              /\ xmlContent[i] = Open("body")
              /\ \E j \in (i + 1)..Len(xmlContent) : xmlContent[j] = Close("body")})

\* bodyMatch[1]
BodyContent(xmlContent) ==
  LET i == BodyMatch(xmlContent)
      j == Leftmost({m \in (i + 1)..Len(xmlContent) : xmlContent[m] = Close("body")})
  IN  SubSeq(xmlContent, i + 1, j - 1)

(***************************************************************************)
(* DeepSRTServer.parseXMLTranscript                                        *)
(***************************************************************************)

\* textContent after the tags are removed, the entities decoded and the
\* whitespace cleaned up
ServerText(content) ==
  LET stripped == SelectSeq(content, NotSTag)
      decoded == ServerDecodeEntities(stripped)
  IN  Trim(CollapseSpaces(NewlinesToSpaces(decoded)))

\* a mutant of ServerSegment: the start time is parsed as 0
ServerSegmentAtZero(startMs, content) ==
  LET textContent == ServerText(content)
  IN  IF /\ textContent # <<>>
         /\ ~MatchesBracketPattern(textContent)
         /\ textContent # ServerMusicLiteral
      THEN <<[timestamp |-> FormatTimestamp(0), text |-> textContent]>>
      ELSE <<>>

\* the body of the while loop for one match: the segment pushed, if any
ServerSegment(startMs, content) ==
  LET textContent == ServerText(content)
  IN  IF /\ textContent # <<>>
         /\ ~MatchesBracketPattern(textContent)
         /\ textContent # ServerMusicLiteral
      THEN <<[timestamp |-> FormatTimestamp(startMs), text |-> textContent]>>
      ELSE <<>>

\* a mutant of ServerLoop: a segment is put in front of the result
RECURSIVE ServerLoopUnshift(_, _)
ServerLoopUnshift(xmlContent, lastIndex) ==
  LET i == PExec(xmlContent, lastIndex, FALSE)
  IN  IF i = 0 THEN <<>>
      ELSE LET j == PMatchEnd(xmlContent, i, FALSE)
           IN  ServerLoopUnshift(xmlContent, j + 1)
                 \o ServerSegment(xmlContent[i].t[1], SubSeq(xmlContent, i + 1, j - 1))

\* the while loop over the matches of pRegex, from lastIndex on
RECURSIVE ServerLoop(_, _)
ServerLoop(xmlContent, lastIndex) ==
  LET i == PExec(xmlContent, lastIndex, FALSE)
  IN  IF i = 0 THEN <<>>
      ELSE LET j == PMatchEnd(xmlContent, i, FALSE)
           IN  ServerSegment(xmlContent[i].t[1], SubSeq(xmlContent, i + 1, j - 1))
                 \o ServerLoop(xmlContent, j + 1)

ServerParseXMLTranscript(xmlContent) ==
  IF IncludesTimedtext(xmlContent) THEN ServerLoop(xmlContent, 1) ELSE <<>>

(***************************************************************************)
(* DeepSRTCLI.parseXMLTranscript                                           *)
(***************************************************************************)

\* the inner while loop: the decoded texts of the <s> elements of a paragraph
RECURSIVE CliSyllables(_, _)
CliSyllables(pContent, lastIndex) ==
  LET i == SExec(pContent, lastIndex)
  IN  IF i = 0 THEN <<>>
      ELSE LET j == SMatchEnd(pContent, i)
           IN  <<CliDecodeEntities(SubSeq(pContent, i + 1, j - 1))>>
                 \o CliSyllables(pContent, j + 1)

\* syllable.startsWith(' ')
StartsWithSpace(syllable) == syllable # <<>> /\ syllable[1] = Ch(" ")

\* if (currentWord.trim()) words.push(currentWord.trim())
PushWord(words, currentWord) ==
  IF Trim(currentWord) # <<>> THEN Append(words, Trim(currentWord)) ELSE words

\* a mutant of ReconstructWords: every syllable is a word of its own
RECURSIVE WordPerSyllable(_, _, _)
WordPerSyllable(syllables, currentWord, words) ==
  IF syllables = <<>> THEN PushWord(words, currentWord)
  ELSE WordPerSyllable(Tail(syllables), Head(syllables), PushWord(words, currentWord))

\* the for loop over the syllables and the push of the last word
RECURSIVE ReconstructWords(_, _, _)
ReconstructWords(syllables, currentWord, words) ==
  IF syllables = <<>> THEN PushWord(words, currentWord)
  ELSE LET syllable == Head(syllables)
       IN  IF StartsWithSpace(syllable)
           THEN ReconstructWords(Tail(syllables), syllable, PushWord(words, currentWord))
           ELSE ReconstructWords(Tail(syllables), currentWord \o syllable, words)

\* words.join(' ')
RECURSIVE Join(_)
Join(words) ==
  IF words = <<>> THEN <<>>
  ELSE IF Len(words) = 1 THEN words[1]
  ELSE words[1] \o <<Ch(" ")>> \o Join(Tail(words))

\* fullText of a paragraph with the syllables given
CliFullText(syllables) == Trim(Join(ReconstructWords(syllables, <<>>, <<>>)))

\* a mutant of CliSegment: a paragraph without syllables gives a segment of
\* its trimmed content
CliSegmentOfContent(startTime, pContent) ==
  IF Trim(pContent) = <<>> THEN <<>>
  ELSE LET syllables == CliSyllables(pContent, 1)
           fullText == IF Len(syllables) > 0 THEN CliFullText(syllables)
                       ELSE Trim(SelectSeq(pContent, NotSTag))
       IN  IF /\ fullText # <<>>
              /\ ~MatchesBracketPattern(fullText)
              /\ fullText # CliMusicLiteral
           THEN <<[timestamp |-> FormatTimestamp(startTime), text |-> fullText]>>
           ELSE <<>>

\* the body of the outer while loop for one match: the segment pushed, if any
CliSegment(startTime, pContent) ==
  IF Trim(pContent) = <<>> THEN <<>>
  ELSE LET syllables == CliSyllables(pContent, 1)
       IN  IF Len(syllables) > 0
           THEN LET fullText == CliFullText(syllables)
                IN  IF /\ fullText # <<>>
                       /\ ~MatchesBracketPattern(fullText)
                       /\ fullText # CliMusicLiteral
                       /\ Trim(fullText) # <<>>
                    THEN <<[timestamp |-> FormatTimestamp(startTime), text |-> fullText]>>
                    ELSE <<>>
           ELSE <<>>

\* a mutant of CliLoop: an empty paragraph ends the parsing (return instead
\* of continue)
RECURSIVE CliLoopReturnsAtBlank(_, _)
CliLoopReturnsAtBlank(bodyContent, lastIndex) ==
  LET i == PExec(bodyContent, lastIndex, TRUE)
  IN  IF i = 0 THEN <<>>
      ELSE LET j == PMatchEnd(bodyContent, i, TRUE)
           IN  IF Trim(SubSeq(bodyContent, i + 1, j - 1)) = <<>> THEN <<>>
               ELSE CliSegment(bodyContent[i].t[1], SubSeq(bodyContent, i + 1, j - 1))
                      \o CliLoopReturnsAtBlank(bodyContent, j + 1)

\* the outer while loop over the matches of pTagRegex, from lastIndex on
RECURSIVE CliLoop(_, _)
CliLoop(bodyContent, lastIndex) ==
  LET i == PExec(bodyContent, lastIndex, TRUE)
  IN  IF i = 0 THEN <<>>
      ELSE LET j == PMatchEnd(bodyContent, i, TRUE)
           IN  CliSegment(bodyContent[i].t[1], SubSeq(bodyContent, i + 1, j - 1))
                 \o CliLoop(bodyContent, j + 1)

CliParseXMLTranscript(xmlContent) ==
  IF IncludesTimedtext(xmlContent)
  THEN IF BodyMatch(xmlContent) = 0 THEN <<>>
       ELSE CliLoop(BodyContent(xmlContent), 1)
  ELSE <<>>

VARIABLES captionsArg, langArg, selDone, serverSel, cliSel, exampleSel,
          fragment, decDone, serverDecoded, cliDecoded,
          envelope, paras, xmlContent, parseDone, serverOut, cliOut,
          milliseconds, fmtDone, serverStamp, cliStamp,
          requests,
          entry, cliProcesses

selVars == <<captionsArg, langArg, selDone, serverSel, cliSel, exampleSel>>

decVars == <<fragment, decDone, serverDecoded, cliDecoded>>

parseVars == <<envelope, paras, xmlContent, parseDone, serverOut, cliOut>>

fmtVars == <<milliseconds, fmtDone, serverStamp, cliStamp>>

reqVars == <<requests>>

procVars == <<entry, cliProcesses>>

vars == <<selVars, decVars, parseVars, fmtVars, reqVars, procVars>>

\* the variables an operation of one part leaves alone
notSelVars == <<decVars, parseVars, fmtVars, reqVars, procVars>>

notDecVars == <<selVars, parseVars, fmtVars, reqVars, procVars>>

notParseVars == <<selVars, decVars, fmtVars, reqVars, procVars>>

notFmtVars == <<selVars, decVars, parseVars, reqVars, procVars>>

notReqVars == <<selVars, decVars, parseVars, fmtVars, procVars>>

notProcVars == <<selVars, decVars, parseVars, fmtVars, reqVars>>

\* the variables of the selection when nothing is selected
SelIdle ==
  /\ captionsArg = [defined |-> FALSE, list |-> <<>>]
  /\ langArg = Undefined
  /\ selDone = {}
  /\ serverSel = Null
  /\ cliSel = Null
  /\ exampleSel = Null

\* the variables of the entity decoding when nothing is decoded
DecIdle ==
  /\ fragment = <<>>
  /\ decDone = {}
  /\ serverDecoded = <<>>
  /\ cliDecoded = <<>>

\* the variables of the parsing when nothing is parsed
ParseIdle ==
  /\ envelope = "timedtext"
  /\ paras = <<>>
  /\ xmlContent = <<>>
  /\ parseDone = {}
  /\ serverOut = <<>>
  /\ cliOut = <<>>

\* the variables of the timestamp formatting when nothing is formatted
FmtIdle ==
  /\ milliseconds = 0
  /\ fmtDone = {}
  /\ serverStamp = <<>>
  /\ cliStamp = <<>>

\* the variables of the requests when there is no request
ReqIdle == requests = <<>>

\* no process of the unified entry point
NoEntry == [args |-> <<>>, pc |-> "none", started |-> {}, exitCode |-> -1, out |-> ""]

\* the variables of the processes when there is no process
ProcIdle ==
  /\ entry = NoEntry
  /\ cliProcesses = <<>>

(***************************************************************************)
(* Selection: a track list (or none) and a preferred language are given;   *)
(* each of the three selectors is applied to them once.                    *)
(***************************************************************************)
SelInit ==
  /\ captionsArg \in {[defined |-> FALSE, list |-> <<>>]}
                       \cup {[defined |-> TRUE, list |-> l] : l \in TrackLists(MaxTracks)}
  /\ langArg \in LangArgs
  /\ selDone = {}
  /\ serverSel = Null
  /\ cliSel = Null
  /\ exampleSel = Null
  /\ DecIdle
  /\ ParseIdle
  /\ FmtIdle
  /\ ReqIdle
  /\ ProcIdle

ServerSelect ==
  /\ "server" \notin selDone
  /\ serverSel' = ServerSelectBestCaption(captionsArg, PreferredLang(langArg))
  /\ selDone' = selDone \cup {"server"}
  /\ UNCHANGED <<captionsArg, langArg, cliSel, exampleSel, notSelVars>>

CliSelect ==
  /\ "cli" \notin selDone
  /\ cliSel' = CliSelectBestCaption(captionsArg, PreferredLang(langArg))
  /\ selDone' = selDone \cup {"cli"}
  /\ UNCHANGED <<captionsArg, langArg, serverSel, exampleSel, notSelVars>>

ExampleSelect ==
  /\ "example" \notin selDone
  /\ exampleSel' = ExampleSelectBestCaption(captionsArg, PreferredLang(langArg))
  /\ selDone' = selDone \cup {"example"}
  /\ UNCHANGED <<captionsArg, langArg, serverSel, cliSel, notSelVars>>

SelNext == ServerSelect \/ CliSelect \/ ExampleSelect

SpecSel == SelInit /\ [][SelNext]_vars

\* the result of each selector that has returned
SelResults ==
  {serverSel : x \in {"server"} \cap selDone}
    \cup {cliSel : x \in {"cli"} \cap selDone}
    \cup {exampleSel : x \in {"example"} \cap selDone}

AllSelected == selDone = {"server", "cli", "example"}

tracks == captionsArg.list

lang == PreferredLang(langArg)

\* the positions of the tracks a rule of the selection order applies to
Rule1 == {i \in DOMAIN tracks : IsManual(tracks[i]) /\ tracks[i].languageCode = lang}

Rule2 == {i \in DOMAIN tracks : IsAuto(tracks[i]) /\ tracks[i].languageCode = lang}

Rule3 == {i \in DOMAIN tracks : IsManual(tracks[i])}

Rule4 == {i \in DOMAIN tracks : IsAuto(tracks[i])}

Rule5 == {i \in DOMAIN tracks : i = 1}

\* the rules in their order
Rules == <<Rule1, Rule2, Rule3, Rule4, Rule5>>

\* the earliest position of a set of positions
Earliest(S) == CHOOSE i \in S : \A j \in S : i <= j

C2_NullIffEmpty ==
  \A r \in SelResults :
    /\ (r = Null) <=> (~captionsArg.defined \/ Len(tracks) = 0)
    /\ r # Null => r \in DOMAIN tracks

\* C2 witness: the server's selector returned on a list of auto-generated
\* tracks in another language than the preferred one
C2_Witness ==
  /\ "server" \in selDone
  /\ captionsArg.defined
  /\ Len(tracks) >= 2
  /\ Rule1 \cup Rule2 \cup Rule3 = {}
  /\ serverSel = 1

\* C3 as claimed: whenever the list holds a manual track, the selected track
\* is manual.
C3_ManualAlwaysWins ==
  (captionsArg.defined /\ Rule3 # {}) =>
    \A r \in SelResults : r # Null /\ IsManual(tracks[r])

\* C3 amended: the selected track is manual whenever the list holds a manual
\* track in the preferred language, or holds a manual track and no
\* auto-generated track in the preferred language.
C3_ManualUnlessAutoPreferred ==
  (captionsArg.defined /\ (Rule1 # {} \/ (Rule3 # {} /\ Rule2 = {}))) =>
    \A r \in SelResults : r # Null /\ IsManual(tracks[r])

\* C3 witness: a manual and an auto-generated track in the preferred
\* language, the auto-generated one first, and the manual one selected
C3_Witness ==
  /\ AllSelected
  /\ captionsArg.defined
  /\ Rule1 # {}
  /\ Rule2 # {}
  /\ Earliest(Rule2) < Earliest(Rule1)
  /\ serverSel = Earliest(Rule1)
  /\ cliSel = Earliest(Rule1)

(***************************************************************************)
(* Entity decoding: a text fragment is given; the decoding chain of each   *)
(* parser is applied to it once.                                           *)
(***************************************************************************)
MaxPieces == 3

\* the pieces the fragments are made of
DecodePieces ==
  {EntAmp, EntLt, EntGt, EntQuot, EntApos, EntNbsp,
   Str(<<"l", "t", ";">>), Str(<<"a">>), Str(<<" ">>), Str(<<"&">>)}

\* the concatenation of a sequence of texts
RECURSIVE Concat(_)
Concat(texts) == IF texts = <<>> THEN <<>> ELSE Head(texts) \o Concat(Tail(texts))

\* the fragments of at most n pieces
Fragments(n) == UNION {{Concat(f) : f \in [1..k -> DecodePieces]} : k \in 0..n}

DecInit ==
  /\ fragment \in Fragments(MaxPieces)
  /\ decDone = {}
  /\ serverDecoded = <<>>
  /\ cliDecoded = <<>>
  /\ SelIdle
  /\ ParseIdle
  /\ FmtIdle
  /\ ReqIdle
  /\ ProcIdle

ServerDecode ==
  /\ "server" \notin decDone
  /\ serverDecoded' = ServerDecodeEntities(fragment)
  /\ decDone' = decDone \cup {"server"}
  /\ UNCHANGED <<fragment, cliDecoded, notDecVars>>

CliDecode ==
  /\ "cli" \notin decDone
  /\ cliDecoded' = CliDecodeEntities(fragment)
  /\ decDone' = decDone \cup {"cli"}
  /\ UNCHANGED <<fragment, serverDecoded, notDecVars>>

DecNext == ServerDecode \/ CliDecode

SpecDecode == DecInit /\ [][DecNext]_vars

\* the six entities of the specification and their characters
EntityTable ==
  {[ent |-> EntAmp, ch |-> "&"], [ent |-> EntLt, ch |-> "<"],
   [ent |-> EntGt, ch |-> ">"], [ent |-> EntQuot, ch |-> "\""],
   [ent |-> EntApos, ch |-> "'"], [ent |-> EntNbsp, ch |-> " "]}

\* the entities that begin a text
EntitiesAt(text) ==
  {e \in EntityTable :
     Len(e.ent) <= Len(text) /\ SubSeq(text, 1, Len(e.ent)) = e.ent}

\* every occurrence of one of the six entities replaced by its character in
\* one pass from left to right, the replacements not decoded again
RECURSIVE DecodeEachOnce(_)
DecodeEachOnce(text) ==
  IF text = <<>> THEN <<>>
  ELSE IF EntitiesAt(text) # {}
       THEN LET e == CHOOSE x \in EntitiesAt(text) : TRUE
            IN  <<Ch(e.ch)>> \o DecodeEachOnce(SubSeq(text, Len(e.ent) + 1, Len(text)))
       ELSE <<Head(text)>> \o DecodeEachOnce(Tail(text))

\* C7: the decoding of each parser replaces every occurrence of the six
\* entities by its character and decodes nothing twice.
C7_DecodesSixEntitiesOnce ==
  /\ "server" \in decDone => serverDecoded = DecodeEachOnce(fragment)
  /\ "cli" \in decDone => cliDecoded = DecodeEachOnce(fragment)

(***************************************************************************)
(* Parsing: a caption document is given; each parser is applied to it      *)
(* once.  A document is an envelope around paragraphs, each paragraph a    *)
(* start time (or none) and a content.                                     *)
(***************************************************************************)
MaxItems == 3

MaxSyllables == 4

MaxParas == 3

\* the <s> element with the text cs
Syl(cs) == <<Open("s")>> \o Str(cs) \o <<Close("s")>>

\* the texts of at most n items
Contents(items, n) == UNION {{Concat(f) : f \in [1..k -> items]} : k \in 0..n}

\* "body": <timedtext><body>...</body></timedtext>, the format of the
\* fixtures of syllable-parsing.test.ts; "timedtext": the same without the
\* body element; "transcript": <transcript><text start="...">...</text>
\* </transcript>, the format of the fixtures of index.test.ts
Envelopes == {"body", "timedtext", "transcript"}

\* the markup of a paragraph
ParagraphMarkup(env, p) ==
  IF env = "transcript"
  THEN <<Open("text")>> \o p.content \o <<Close("text"), Ch("\n")>>
  ELSE <<IF p.t = NoT THEN Open("p") ELSE OpenT("p", p.t[1])>>
         \o p.content \o <<Close("p"), Ch("\n")>>

\* the markup of a sequence of paragraphs
RECURSIVE ParagraphsMarkup(_, _)
ParagraphsMarkup(env, ps) ==
  IF ps = <<>> THEN <<>>
  ELSE ParagraphMarkup(env, Head(ps)) \o ParagraphsMarkup(env, Tail(ps))

\* the document
Document(env, ps) ==
  IF env = "body"
  THEN <<Open("timedtext"), Ch("\n"), Open("body"), Ch("\n")>>
         \o ParagraphsMarkup(env, ps)
         \o <<Close("body"), Ch("\n"), Close("timedtext")>>
  ELSE IF env = "timedtext"
  THEN <<Open("timedtext"), Ch("\n")>> \o ParagraphsMarkup(env, ps)
         \o <<Close("timedtext")>>
  ELSE <<Open("transcript"), Ch("\n")>> \o ParagraphsMarkup(env, ps)
         \o <<Close("transcript")>>

\* the start times of the paragraphs, in milliseconds
Times == {1634, 61000}

\* what a paragraph is made of in the documents of one paragraph
ParaItems ==
  {Str(<<"a">>), Str(<<" ">>), Str(<<"\n">>), Str(<<"[">>), Str(<<"]">>),
   ServerMusicLiteral,
   Syl(<<"a">>), Syl(<<" ", "b">>), Syl(<<"a", " ", " ", "b">>),
   Syl(<<"[", "a", "]">>),
   <<Open("s")>> \o ServerMusicLiteral \o <<Close("s")>>}

\* the syllables of the documents of one syllable-segmented paragraph
SyllableItems ==
  {Syl(<<"a">>), Syl(<<" ", "b">>), Syl(<<"r", " ">>), Syl(<<" ">>),
   Syl(<<"&", "#", "3", "9", ";">>)}

\* the contents of the paragraphs of the documents of several paragraphs
ParaShapes ==
  {Syl(<<"a">>) \o Syl(<<" ", "b">>), Str(<<"a", " ", "b">>), <<>>,
   Str(<<" ", " ">>), Str(<<"\n">>), Syl(<<"[", "a", "]">>)}

\* the sequences of at most n paragraphs
ParagraphLists(n) ==
  UNION {[1..k -> [t : {<<ms>> : ms \in Times}, content : ParaShapes]] : k \in 0..n}

ParseStart ==
  /\ xmlContent = Document(envelope, paras)
  /\ parseDone = {}
  /\ serverOut = <<>>
  /\ cliOut = <<>>
  /\ SelIdle
  /\ DecIdle
  /\ FmtIdle
  /\ ReqIdle
  /\ ProcIdle

\* one paragraph of any content, in any envelope
ParaInit ==
  /\ envelope \in Envelopes
  /\ paras \in {<<[t |-> t, content |-> c]>> :
                  t \in {<<1634>>, NoT}, c \in Contents(ParaItems, MaxItems)}
  /\ ParseStart

\* one paragraph of syllables
SylInit ==
  /\ envelope = "body"
  /\ paras \in {<<[t |-> <<1634>>, content |-> c]>> :
                  c \in Contents(SyllableItems, MaxSyllables)}
  /\ ParseStart

\* several paragraphs
DocInit ==
  /\ envelope \in {"body", "timedtext"}
  /\ paras \in ParagraphLists(MaxParas)
  /\ ParseStart

ServerParse ==
  /\ "server" \notin parseDone
  /\ serverOut' = ServerParseXMLTranscript(xmlContent)
  /\ parseDone' = parseDone \cup {"server"}
  /\ UNCHANGED <<envelope, paras, xmlContent, cliOut, notParseVars>>

CliParse ==
  /\ "cli" \notin parseDone
  /\ cliOut' = CliParseXMLTranscript(xmlContent)
  /\ parseDone' = parseDone \cup {"cli"}
  /\ UNCHANGED <<envelope, paras, xmlContent, serverOut, notParseVars>>

ParseNext == ServerParse \/ CliParse

SpecPara == ParaInit /\ [][ParseNext]_vars

SpecSyl == SylInit /\ [][ParseNext]_vars

SpecDoc == DocInit /\ [][ParseNext]_vars

\* the paragraph of a document of one paragraph
para == paras[1]

\* the segment of the text for the paragraph p
SegmentOf(p, text) == [timestamp |-> FormatTimestamp(p.t[1]), text |-> text]

\* the texts of the <s> elements of a content in document order, each of
\* the entities in them decoded once
RECURSIVE SyllableTexts(_)
SyllableTexts(content) ==
  IF content = <<>> THEN <<>>
  ELSE IF Head(content) = Open("s")
       THEN LET close == Leftmost({i \in 2..Len(content) : content[i] = Close("s")})
            IN  <<DecodeEachOnce(SubSeq(content, 2, close - 1))>>
                  \o SyllableTexts(SubSeq(content, close + 1, Len(content)))
       ELSE SyllableTexts(Tail(content))

\* the syllables that start a word: the first one and those that begin with
\* a space
WordStarts(syls) == {i \in DOMAIN syls : i = 1 \/ StartsWithSpace(syls[i])}

\* the last syllable of the word that starts at syllable b
WordEnd(syls, b) ==
  LET later == {i \in WordStarts(syls) : i > b}
  IN  IF later = {} THEN Len(syls) ELSE Leftmost(later) - 1

\* the word that starts at syllable b: its syllables appended to each other,
\* without the whitespace around it
WordAt(syls, b) == Trim(Concat(SubSeq(syls, b, WordEnd(syls, b))))

\* the non-empty words from syllable b on, in order
RECURSIVE WordsFrom(_, _)
WordsFrom(syls, b) ==
  IF b > Len(syls) THEN <<>>
  ELSE (IF WordAt(syls, b) = <<>> THEN <<>> ELSE <<WordAt(syls, b)>>)
         \o WordsFrom(syls, WordEnd(syls, b) + 1)

HasSpace(text) == \E i \in DOMAIN text : IsSpace(text[i])

\* the syllable has no whitespace after its first character
NoInnerSpace(syllable) == \A i \in 2..Len(syllable) : ~IsSpace(syllable[i])

Apostrophe == Str(<<"'">>)

\* the CLI has parsed a document of one paragraph with syllables
SyllablesParsed ==
  /\ "cli" \in parseDone
  /\ envelope = "body"
  /\ Len(paras) = 1
  /\ para.t # NoT
  /\ SyllableTexts(para.content) # <<>>

\* the segment text is the words of the rule joined with one space each
SyllableRule ==
  LET syls == SyllableTexts(para.content)
      text == Join(WordsFrom(syls, 1))
  IN  /\ IF text = <<>> THEN cliOut = <<>> ELSE cliOut = <<SegmentOf(para, text)>>
      /\ \A i \in 2..Len(syls) :
           (/\ syls[i] = Apostrophe
            /\ syls[i - 1] # <<>>
            /\ ~IsSpace(syls[i - 1][Len(syls[i - 1])]))
             => /\ cliOut # <<>>
                /\ Includes(cliOut[1].text,
                            <<syls[i - 1][Len(syls[i - 1])]>> \o Apostrophe)

\* C4 as claimed: the text of a syllable-segmented paragraph is built by the
\* word rule, and no word of it has a space inside.
C4_WordsHaveNoSpaceInside ==
  SyllablesParsed =>
    /\ SyllableRule
    /\ \A b \in WordStarts(SyllableTexts(para.content)) :
         ~HasSpace(WordAt(SyllableTexts(para.content), b))

\* C4 amended: the text of a syllable-segmented paragraph is built by the
\* word rule: a syllable that begins with a space starts a word, any other
\* syllable is appended to the word in progress with nothing put between,
\* the non-empty words, without the whitespace around them, are joined with
\* one space; a word has no space inside when none of its syllables has
\* whitespace after its first character.
C4_WordsFromSyllables ==
  SyllablesParsed =>
    /\ SyllableRule
    /\ LET syls == SyllableTexts(para.content)
       IN  \A b \in WordStarts(syls) :
             (\A i \in b..WordEnd(syls, b) : NoInnerSpace(syls[i]))
               => ~HasSpace(WordAt(syls, b))

\* C4 witness: four syllables, the second an apostrophe entity, the third
\* with a leading space, parsed into two words
C4_Witness ==
  /\ SyllablesParsed
  /\ SyllableTexts(para.content)
       = <<Str(<<"a">>), Apostrophe, Str(<<" ", "b">>), Str(<<"a">>)>>
  /\ cliOut = <<SegmentOf(para, Str(<<"a", "'", " ", "b", "a">>))>>

IsChar(tok) == tok.k = "ch"

\* the inline text of a content: its characters in document order, the tags
\* around them left out, with the whitespace normalized
InlineText(content) ==
  Trim(CollapseSpaces(NewlinesToSpaces(SelectSeq(content, IsChar))))

\* three music notes
ThreeNotes == <<NoteGlyph, NoteGlyph, NoteGlyph>>

\* the texts for which no segment is to be produced
Rejected(text) ==
  \/ text = <<>>
  \/ (text # <<>> /\ text[1] = Ch("[") /\ text[Len(text)] = Ch("]"))
  \/ text = ThreeNotes

\* a document of one paragraph with a start time, in the envelope both
\* parsers read
OneTimedParagraph ==
  /\ envelope = "body"
  /\ Len(paras) = 1
  /\ para.t # NoT

\* C5: a paragraph with a start time and non-blank inline text, with or
\* without <s> wrappers around parts of it, yields one segment with the
\* inline text, in the MCP server and in the CLI.
C5_InlineTextParsedByBoth ==
  (OneTimedParagraph /\ ~Rejected(InlineText(para.content))) =>
    /\ "server" \in parseDone
         => serverOut = <<SegmentOf(para, InlineText(para.content))>>
    /\ "cli" \in parseDone
         => cliOut = <<SegmentOf(para, InlineText(para.content))>>

\* the text is not empty, has no whitespace at its ends, no line break or
\* tab, and no two whitespace characters in a row
WhitespaceNormalized(text) ==
  /\ text # <<>>
  /\ ~IsSpace(text[1])
  /\ ~IsSpace(text[Len(text)])
  /\ \A i \in DOMAIN text : text[i] \notin {Ch("\n"), Ch("\t")}
  /\ \A i \in 1..(Len(text) - 1) : ~(IsSpace(text[i]) /\ IsSpace(text[i + 1]))

\* C6: the text of every emitted segment is non-empty and
\* whitespace-normalized.
C6_TextsNormalized ==
  /\ "server" \in parseDone
       => \A i \in DOMAIN serverOut : WhitespaceNormalized(serverOut[i].text)
  /\ "cli" \in parseDone
       => \A i \in DOMAIN cliOut : WhitespaceNormalized(cliOut[i].text)

\* the text the CLI reconstructs for a paragraph content
CliText(content) == CliFullText(CliSyllables(content, 1))

\* C8: a paragraph with a start time produces no segment exactly when its
\* reconstructed, normalized text is empty, begins with '[' and ends with
\* ']', or is the three music notes; in the MCP server and in the CLI.
C8_RejectedExactly ==
  OneTimedParagraph =>
    /\ "server" \in parseDone
         => (serverOut = <<>> <=> Rejected(ServerText(para.content)))
    /\ "cli" \in parseDone
         => (cliOut = <<>> <=> Rejected(CliText(para.content)))

\* the paragraph is not empty and not whitespace only
NotBlank(p) == Trim(p.content) # <<>>

RECURSIVE ServerEach(_, _)
ServerEach(env, ps) ==
  IF ps = <<>> THEN <<>>
  ELSE ServerParseXMLTranscript(Document(env, <<Head(ps)>>)) \o ServerEach(env, Tail(ps))

\* the outputs of the CLI for each paragraph alone, in document order
RECURSIVE CliEach(_, _)
CliEach(env, ps) ==
  IF ps = <<>> THEN <<>>
  ELSE CliParseXMLTranscript(Document(env, <<Head(ps)>>)) \o CliEach(env, Tail(ps))

RECURSIVE ServerOffsets(_, _)
ServerOffsets(env, ps) ==
  IF ps = <<>> THEN <<>>
  ELSE (IF ServerParseXMLTranscript(Document(env, <<Head(ps)>>)) = <<>> THEN <<>>
        ELSE <<Head(ps).t[1]>>)
         \o ServerOffsets(env, Tail(ps))

\* the start offsets, in document order, of the paragraphs of which the CLI
\* makes a segment
RECURSIVE CliOffsets(_, _)
CliOffsets(env, ps) ==
  IF ps = <<>> THEN <<>>
  ELSE (IF CliParseXMLTranscript(Document(env, <<Head(ps)>>)) = <<>> THEN <<>>
        ELSE <<Head(ps).t[1]>>)
         \o CliOffsets(env, Tail(ps))

NonDecreasing(offsets) ==
  \A i \in 1..(Len(offsets) - 1) : offsets[i] <= offsets[i + 1]

\* the segments carry, one by one, the timestamps of the offsets
TimestampsOf(segments, offsets) ==
  /\ Len(segments) = Len(offsets)
  /\ \A i \in DOMAIN segments : segments[i].timestamp = FormatTimestamp(offsets[i])

\* the start offsets of the paragraphs of the document, in document order
ParagraphOffsets == [i \in DOMAIN paras |-> paras[i].t[1]]

\* C11 as claimed: for every document the segments are in non-decreasing
\* order of start offset.
C11_OffsetsNonDecreasing ==
  /\ "server" \in parseDone
       => /\ TimestampsOf(serverOut, ServerOffsets(envelope, paras))
          /\ NonDecreasing(ServerOffsets(envelope, paras))
  /\ "cli" \in parseDone
       => /\ TimestampsOf(cliOut, CliOffsets(envelope, paras))
          /\ NonDecreasing(CliOffsets(envelope, paras))

\* C11 amended: the segments carry the start offsets of their paragraphs in
\* document order, so they are in non-decreasing order of start offset when
\* the paragraphs of the document are.
C11_OffsetsInDocumentOrder ==
  /\ "server" \in parseDone
       => /\ TimestampsOf(serverOut, ServerOffsets(envelope, paras))
          /\ NonDecreasing(ParagraphOffsets)
               => NonDecreasing(ServerOffsets(envelope, paras))
  /\ "cli" \in parseDone
       => /\ TimestampsOf(cliOut, CliOffsets(envelope, paras))
          /\ NonDecreasing(ParagraphOffsets)
               => NonDecreasing(CliOffsets(envelope, paras))

\* C11 witness: paragraphs at 1634, 1634 and 61000 ms, the second one
\* bracketed, and the segments [00:01] and [01:01] from both parsers
C11_Witness ==
  /\ parseDone = {"server", "cli"}
  /\ envelope = "body"
  /\ ParagraphOffsets = <<1634, 1634, 61000>>
  /\ paras[2].content = Syl(<<"[", "a", "]">>)
  /\ ServerOffsets(envelope, paras) = <<1634, 61000>>
  /\ serverOut = <<[timestamp |-> <<"[", "0", "0", ":", "0", "1", "]">>,
                    text |-> Str(<<"a", " ", "b">>)],
                   [timestamp |-> <<"[", "0", "1", ":", "0", "1", "]">>,
                    text |-> Str(<<"a", " ", "b">>)]>>
  /\ cliOut = serverOut

(***************************************************************************)
(* Timestamps: a number of milliseconds is given; formatTimestamp of the   *)
(* MCP server and of the CLI is applied to it once each.                   *)
(***************************************************************************)
MaxMinutes == 1000

\* the minutes, seconds and remaining milliseconds the inputs are made of
MinuteChoices == {0, 1, 9, 10, 59, 60, 61, 99, 100, MaxMinutes}

SecondChoices == {0, 1, 9, 10, 30, 59}

MilliChoices == {0, 999}

MillisecondValues ==
  {mm * 60000 + ss * 1000 + r :
     mm \in MinuteChoices, ss \in SecondChoices, r \in MilliChoices}

FmtInit ==
  /\ milliseconds \in MillisecondValues
  /\ fmtDone = {}
  /\ serverStamp = <<>>
  /\ cliStamp = <<>>
  /\ SelIdle
  /\ DecIdle
  /\ ParseIdle
  /\ ReqIdle
  /\ ProcIdle

ServerFormat ==
  /\ "server" \notin fmtDone
  /\ serverStamp' = FormatTimestamp(milliseconds)
  /\ fmtDone' = fmtDone \cup {"server"}
  /\ UNCHANGED <<milliseconds, cliStamp, notFmtVars>>

CliFormat ==
  /\ "cli" \notin fmtDone
  /\ cliStamp' = FormatTimestamp(milliseconds)
  /\ fmtDone' = fmtDone \cup {"cli"}
  /\ UNCHANGED <<milliseconds, serverStamp, notFmtVars>>

FmtNext == ServerFormat \/ CliFormat

SpecFmt == FmtInit /\ [][FmtNext]_vars

\* the number a decimal digit stands for
DigitValue(d) ==
  CASE d = "0" -> 0 [] d = "1" -> 1 [] d = "2" -> 2 [] d = "3" -> 3 [] d = "4" -> 4
    [] d = "5" -> 5 [] d = "6" -> 6 [] d = "7" -> 7 [] d = "8" -> 8 [] d = "9" -> 9

IsDigit(d) == d \in {"0", "1", "2", "3", "4", "5", "6", "7", "8", "9"}

\* the number a sequence of decimal digits stands for
RECURSIVE DecimalValue(_)
DecimalValue(ds) ==
  IF ds = <<>> THEN 0
  ELSE 10 * DecimalValue(SubSeq(ds, 1, Len(ds) - 1)) + DigitValue(ds[Len(ds)])

\* stamp is [MM:SS] for m milliseconds: MM the minutes in decimal with two
\* digits at least and no more than needed, SS the seconds of the minute
\* with two digits
IsStampOf(stamp, m) ==
  /\ Len(stamp) >= 7
  /\ stamp[1] = "["
  /\ stamp[Len(stamp)] = "]"
  /\ stamp[Len(stamp) - 3] = ":"
  /\ LET mm == SubSeq(stamp, 2, Len(stamp) - 4)
         ss == SubSeq(stamp, Len(stamp) - 2, Len(stamp) - 1)
     IN  /\ \A i \in DOMAIN mm : IsDigit(mm[i])
         /\ \A i \in DOMAIN ss : IsDigit(ss[i])
         /\ DecimalValue(mm) = m \div 60000
         /\ Len(mm) > 2 => mm[1] # "0"
         /\ DecimalValue(ss) = (m \div 1000) % 60
         /\ DecimalValue(ss) \in 0..59

\* the examples of the claim
StampExamples(stamp, m) ==
  /\ m = 0 => stamp = <<"[", "0", "0", ":", "0", "0", "]">>
  /\ m = 90000 => stamp = <<"[", "0", "1", ":", "3", "0", "]">>
  /\ m = 3661000 => stamp = <<"[", "6", "1", ":", "0", "1", "]">>

\* C12: formatTimestamp(m) is [MM:SS] with MM = floor(m / 60000), two digits
\* at least and not capped at 59, and SS = floor(m / 1000) mod 60 with two
\* digits.
C12_TimestampFormat ==
  /\ "server" \in fmtDone
       => IsStampOf(serverStamp, milliseconds) /\ StampExamples(serverStamp, milliseconds)
  /\ "cli" \in fmtDone
       => IsStampOf(cliStamp, milliseconds) /\ StampExamples(cliStamp, milliseconds)

\* C12 witness: 3661000 ms formatted as [61:01] by both
C12_Witness ==
  /\ fmtDone = {"server", "cli"}
  /\ milliseconds = 3661000
  /\ serverStamp = <<"[", "6", "1", ":", "0", "1", "]">>
  /\ cliStamp = serverStamp

\* the paragraph is not blank and has no <s> element in it
NoSyllableElement(p) ==
  /\ NotBlank(p)
  /\ \A i \in DOMAIN p.content : p.content[i] # Open("s")

HasSyllableElement(p) == ~NoSyllableElement(p)

IdChars == {"a", "b", "c", "d", "e", "f", "g", "h", "i", "j", "k", "l", "m",
   "n", "o", "p", "q", "r", "s", "t", "u", "v", "w", "x", "y", "z", "A",
   "B", "C", "D", "E", "F", "G", "H", "I", "J", "K", "L", "M", "N", "O",
   "P", "Q", "R", "S", "T", "U", "V", "W", "X", "Y", "Z", "0", "1", "2",
   "3", "4", "5", "6", "7", "8", "9", "_", "-"}

\* the letters a scheme is made of
SchemeLetters == {"a", "b", "c", "d", "e", "f", "g", "h", "i", "j", "k",
   "l", "m", "n", "o", "p", "q", "r", "s", "t", "u", "v", "w", "x", "y",
   "z"}

\* lit occurs in text at position i
StartsAt(text, i, lit) ==
  /\ i + Len(lit) - 1 <= Len(text)
  /\ SubSeq(text, i, i + Len(lit) - 1) = lit

\* [a-zA-Z0-9_-]{11} matches text at position i
IdAt(text, i) == i + 10 <= Len(text) /\ \A j \in i..(i + 10) : text[j] \in IdChars

\* the greatest position of a set of positions; 0 when there is none
Rightmost(S) == IF S = {} THEN 0 ELSE CHOOSE i \in S : \A j \in S : j <= i

\* the literals of the first pattern of extractVideoId
WatchV == <<"y", "o", "u", "t", "u", "b", "e", ".", "c", "o", "m", "/", "w",
  "a", "t", "c", "h", "?", "v", "=">>

ShortHost == <<"y", "o", "u", "t", "u", ".", "b", "e", "/">>

Embed == <<"y", "o", "u", "t", "u", "b", "e", ".", "c", "o", "m", "/", "e",
  "m", "b", "e", "d", "/">>

\* the literal the second pattern begins with
Watch == <<"y", "o", "u", "t", "u", "b", "e", ".", "c", "o", "m", "/", "w",
  "a", "t", "c", "h", "?">>

VEquals == <<"v", "=">>

\* extractVideoId returns null
NoId == <<>>

\* input.match(patterns[0]): the group of the leftmost match, NoId for null
FirstPattern(input) ==
  LET starts == {i \in DOMAIN input :
                   \E lit \in {WatchV, ShortHost, Embed} :
                      StartsAt(input, i, lit) /\ IdAt(input, i + Len(lit))}
  IN  IF starts = {} THEN NoId
      ELSE LET i == Leftmost(starts)
               lit == CHOOSE l \in {WatchV, ShortHost, Embed} :
                        StartsAt(input, i, l) /\ IdAt(input, i + Len(l))
           IN  SubSeq(input, i + Len(lit), i + Len(lit) + 10)

\* the positions j of a v= that ends the greedy .* of the second pattern
\* when the pattern is tried at position i
SecondPatternEnds(input, i) ==
  IF ~StartsAt(input, i, Watch) THEN {}
  ELSE {j \in (i + Len(Watch))..Len(input) :
          /\ StartsAt(input, j, VEquals)
          /\ IdAt(input, j + 2)
          /\ \A m \in (i + Len(Watch))..(j - 1) : input[m] # "\n"}

\* input.match(patterns[1]): the group of the leftmost match, NoId for null
SecondPattern(input) ==
  LET starts == {i \in DOMAIN input : SecondPatternEnds(input, i) # {}}
  IN  IF starts = {} THEN NoId
      ELSE LET j == Rightmost(SecondPatternEnds(input, Leftmost(starts)))
           IN  SubSeq(input, j + 2, j + 12)

\* extractVideoId, the same in the MCP server and in the CLI
ExtractVideoId(input) ==
  IF /\ Len(input) = 11
     /\ \A i \in DOMAIN input : input[i] \notin {"/", "="}
  THEN input
  ELSE IF FirstPattern(input) # NoId THEN FirstPattern(input)
  ELSE SecondPattern(input)

\* new URL(url) does not throw: the text begins with a scheme and a colon
IsAbsoluteUrl(url) ==
  \E i \in 2..Len(url) :
     url[i] = ":" /\ \A j \in 1..(i - 1) : url[j] \in SchemeLetters

\* the query of a URL as the URL parser reads it: what follows the first
\* "?" of the part before the first "#"
UrlRawQuery(url) ==
  LET hash == Leftmost({i \in DOMAIN url : url[i] = "#"})
      beforeHash == IF hash = 0 THEN url ELSE SubSeq(url, 1, hash - 1)
      mark == Leftmost({i \in DOMAIN beforeHash : beforeHash[i] = "?"})
  IN  IF mark = 0 THEN <<>> ELSE SubSeq(beforeHash, mark + 1, Len(beforeHash))

\* the percent-encoding of one character of the query of an https URL
PercentEncode(c) ==
  CASE c = " " -> <<"%", "2", "0">>
    [] c = "\"" -> <<"%", "2", "2">>
    [] c = "<" -> <<"%", "3", "C">>
    [] c = ">" -> <<"%", "3", "E">>
    [] c = "'" -> <<"%", "2", "7">>
    [] OTHER -> <<c>>

\* new URL(url).search: empty for an empty query, else "?" and the query
\* with its characters percent-encoded
UrlSearch(url) ==
  LET raw == UrlRawQuery(url)
      encoded == Concat([i \in DOMAIN raw |-> PercentEncode(raw[i])])
  IN  IF encoded = <<>> THEN <<>> ELSE <<"?">> \o encoded

\* s.slice(1)
Slice1(s) == IF s = <<>> THEN <<>> ELSE Tail(s)

\* new URL(selectedCaption.baseUrl).search.slice(1)
TranscriptArg(baseUrl) == Slice1(UrlSearch(baseUrl))

(***************************************************************************)
(* Requests: the tool handlers of the MCP server and the commands of the   *)
(* CLI.  A request is a record of its arguments, of the responses its      *)
(* collaborators give (world), of the local variables of its handler, of   *)
(* the calls in flight (pending), of what it did so far (log) and of what  *)
(* it returned (outcome).                                                  *)
(***************************************************************************)

\* the video inputs of the usage examples (src/src/cli.ts:7-8)
VideoId == <<"d", "Q", "w", "4", "w", "9", "W", "g", "X", "c", "Q">>

VideoUrl == <<"h", "t", "t", "p", "s", ":", "/", "/", "w", "w", "w", ".",
  "y", "o", "u", "t", "u", "b", "e", ".", "c", "o", "m", "/", "w", "a", "t",
  "c", "h", "?", "v", "=", "d", "Q", "w", "4", "w", "9", "W", "g", "X", "c",
  "Q">>

BadInput == <<"i", "n", "v", "a", "l", "i", "d", "-", "i", "n", "p", "u", "t">>

\* the fetch locators (baseUrl) of caption tracks
UrlTimedtext == <<"h", "t", "t", "p", "s", ":", "/", "/", "w", "w", "w",
  ".", "y", "o", "u", "t", "u", "b", "e", ".", "c", "o", "m", "/", "a", "p",
  "i", "/", "t", "i", "m", "e", "d", "t", "e", "x", "t", "?", "v", "=", "d",
  "Q", "w", "4", "w", "9", "W", "g", "X", "c", "Q", "&", "l", "a", "n", "g",
  "=", "e", "n">>

UrlNoQuery == <<"h", "t", "t", "p", "s", ":", "/", "/", "e", "x", "a", "m",
  "p", "l", "e", ".", "c", "o", "m", "/", "c", "a", "p", "t", "i", "o", "n",
  "1">>

UrlQuoted == <<"h", "t", "t", "p", "s", ":", "/", "/", "e", "x", "a", "m",
  "p", "l", "e", ".", "c", "o", "m", "/", "c", "a", "p", "t", "i", "o", "n",
  "?", "n", "a", "m", "e", "=", "'", "a", "'", "&", "l", "a", "n", "g", "=",
  "f", "r", "#", "t", "o", "p">>

UrlRelative == <<"/", "a", "p", "i", "/", "t", "i", "m", "e", "d", "t", "e",
  "x", "t", "?", "v", "=", "d", "Q", "w", "4", "w", "9", "W", "g", "X", "c",
  "Q">>

\* an argument that is missing or empty
NoInput == <<>>

\* no track selected yet
NoTrack == [languageCode |-> "", kind |-> "", baseUrl |-> <<>>]

\* nothing returned yet
NoOutcome ==
  [status |-> "none", text |-> <<>>, title |-> "", captionType |-> "",
   segments |-> <<>>, summary |-> ""]

\* an entry of the log of a request
Ev(name) ==
  [ev |-> name, v |-> <<>>, url |-> <<>>, action |-> "", lang |-> "", mode |-> "",
   txt |-> "", arg |-> <<>>]

\* the responses of a collaborator: a rejection by axios with the message of
\* a status 500 or of the timeout of 30000 ms, and a fulfilment
Rejected500(data) == [ok |-> FALSE, message |-> "Request failed with status code 500", data |-> data]

RejectedTimeout(data) == [ok |-> FALSE, message |-> "timeout of 30000ms exceeded", data |-> data]

Fulfilled(data) == [ok |-> TRUE, message |-> "", data |-> data]

\* a request as it arrives
NewRequest(front, tool, videoInput, language, mode, world) ==
  [front |-> front, tool |-> tool, videoInput |-> videoInput, lang |-> language,
   mode |-> mode, world |-> world, pc |-> "new", videoId |-> NoId,
   title |-> "", selected |-> NoTrack, pending |-> {}, settled |-> <<>>,
   log |-> <<>>, outcome |-> NoOutcome]

\* the default values of lang and mode
TranscriptLang(q) == IF q.lang = Undefined THEN "en" ELSE q.lang

\* a mutant of SummaryLang: the default of the transcript
SummaryLangEn(q) == IF q.lang = Undefined THEN "en" ELSE q.lang

SummaryLang(q) == IF q.lang = Undefined THEN "zh-tw" ELSE q.lang

SummaryMode(q) == IF q.mode = Undefined THEN "narrative" ELSE q.mode

\* the catch block of a handler: an error response (isError: true) of the
\* MCP server, console.error and process.exit(1) of the CLI; message is
\* the parts of error.message
Fail(q, message) ==
  [q EXCEPT !.pc = "done",
            !.outcome = [NoOutcome EXCEPT
                           !.status = "error",
                           !.text = IF q.front = "cli" THEN <<"Error">> \o message
                                    ELSE IF q.tool = "get_summary"
                                    THEN <<"Error getting summary">> \o message
                                    ELSE <<"Error getting transcript">> \o message]]

\* throw new McpError(ErrorCode.InvalidParams, ...) before the try block
ThrowInvalidParams(q) ==
  [q EXCEPT !.pc = "done",
            !.outcome = [NoOutcome EXCEPT !.status = "thrown",
                                          !.text = <<"McpError", "InvalidParams">>]]

\* parseArgs of the CLI without a video input: process.exit(1)
ExitWithoutInput(q) ==
  [q EXCEPT !.pc = "done",
            !.outcome = [NoOutcome EXCEPT
                           !.status = "error",
                           !.text = <<"Error", "Video URL or ID is required">>]]

\* this.getVideoInfo(videoId): the POST to the player endpoint is issued
PostPlayer(q, videoId) ==
  [q EXCEPT !.pc = "info",
            !.videoId = videoId,
            !.pending = {"player"},
            !.log = Append(@, [Ev("post:player") EXCEPT !.v = videoId])]

\* arguments of a tool call that are not strings: a number as videoId, and
\* a number as lang or mode
NumberInput == <<"number 42">>

NumberArg == "number 42"

\* a mutant of IsValidSummaryArgs: the mode is not looked at
IsValidSummaryArgsWithoutMode(q) ==
  /\ q.videoInput # NumberInput
  /\ Len(q.videoInput) > 0
  /\ (q.lang = Undefined \/ q.lang # NumberArg)

\* isValidSummaryArgs: videoId is a string that is not empty, lang is
\* undefined or a string, mode is undefined, narrative or bullet
IsValidSummaryArgs(q) ==
  /\ q.videoInput # NumberInput
  /\ Len(q.videoInput) > 0
  /\ (q.lang = Undefined \/ q.lang # NumberArg)
  /\ q.mode \in {Undefined, "narrative", "bullet"}

\* isValidTranscriptArgs
IsValidTranscriptArgs(q) ==
  /\ q.videoInput # NumberInput
  /\ Len(q.videoInput) > 0
  /\ (q.lang = Undefined \/ q.lang # NumberArg)

\* the handler up to its first await
BeginStep(q) ==
  IF q.front = "mcp"
  THEN IF q.tool = "get_summary"
       THEN IF ~IsValidSummaryArgs(q) THEN ThrowInvalidParams(q)
            ELSE PostPlayer(q, q.videoInput)
       ELSE IF ~IsValidTranscriptArgs(q) THEN ThrowInvalidParams(q)
            ELSE IF ExtractVideoId(q.videoInput) = NoId
            THEN Fail(q, <<"Invalid YouTube URL or video ID">>)
            ELSE PostPlayer(q, ExtractVideoId(q.videoInput))
  ELSE IF q.videoInput = NoInput THEN ExitWithoutInput(q)
       ELSE IF ExtractVideoId(q.videoInput) = NoId
       THEN Fail(q, <<"Invalid YouTube URL or video ID">>)
       ELSE PostPlayer(q, ExtractVideoId(q.videoInput))

\* a mutant of SelectFor: a summary request selects with its lang
SelectForLang(q, captionTracks) ==
  LET preferredLang == IF q.tool = "get_summary" THEN SummaryLang(q) ELSE TranscriptLang(q)
  IN  IF q.front = "mcp" THEN ServerSelectBestCaption(captionTracks, preferredLang)
      ELSE CliSelectBestCaption(captionTracks, preferredLang)

\* this.selectBestCaption(captionTracks, lang) of a transcript request and
\* this.selectBestCaption(captionTracks) of a summary request
SelectFor(q, captionTracks) ==
  LET preferredLang == IF q.tool = "get_summary" THEN DefaultLang ELSE TranscriptLang(q)
  IN  IF q.front = "mcp" THEN ServerSelectBestCaption(captionTracks, preferredLang)
      ELSE CliSelectBestCaption(captionTracks, preferredLang)

\* a mutant of InfoFailed: the request is issued a second time
InfoFailedRetrying(q, message) ==
  IF Cardinality({i \in DOMAIN q.log : q.log[i].ev = "post:player"}) < 2
  THEN [q EXCEPT !.pending = {"player"},
                 !.log = Append(@, [Ev("post:player") EXCEPT !.v = q.videoId])]
  ELSE Fail(q, message)

\* the rejection of getVideoInfo in the catch block: no retry
InfoFailed(q, message) == Fail(q, message)

\* the caption fetch of a transcript request is issued
GetCaption(q, track) ==
  [q EXCEPT !.pc = "caption",
            !.selected = track,
            !.pending = {"caption"},
            !.log = @ \o <<Ev("select"), [Ev("get:caption") EXCEPT !.url = track.baseUrl]>>]

\* a mutant of SummaryCalls: the caption document is fetched as well
SummaryCallsWithCaption(q, title, track) ==
  <<[Ev("get:caption") EXCEPT !.url = track.baseUrl],
    [Ev("get:summarize") EXCEPT !.v = q.videoId, !.action = "summarize",
       !.lang = SummaryLang(q), !.mode = SummaryMode(q),
       !.arg = TranscriptArg(track.baseUrl)],
    [Ev("get:translate") EXCEPT !.v = q.videoId, !.action = "translate",
       !.txt = title, !.lang = SummaryLang(q), !.mode = SummaryMode(q),
       !.arg = TranscriptArg(track.baseUrl)]>>

\* the two GET requests of Promise.all: their parameters and their
\* X-Transcript-Arg header
SummaryCalls(q, title, track) ==
  <<[Ev("get:summarize") EXCEPT !.v = q.videoId, !.action = "summarize",
       !.lang = SummaryLang(q), !.mode = SummaryMode(q),
       !.arg = TranscriptArg(track.baseUrl)],
    [Ev("get:translate") EXCEPT !.v = q.videoId, !.action = "translate",
       !.txt = title, !.lang = SummaryLang(q), !.mode = SummaryMode(q),
       !.arg = TranscriptArg(track.baseUrl)]>>

\* the two calls of a summary request are issued; new URL(baseUrl) throws
\* for a locator that is not absolute
GetSummaryAndTitle(q, title, track) ==
  IF ~IsAbsoluteUrl(track.baseUrl)
  THEN [Fail(q, <<"Invalid URL">>) EXCEPT !.selected = track, !.title = title,
                                      !.log = Append(@, Ev("select"))]
  ELSE [q EXCEPT !.pc = "both",
                 !.selected = track,
                 !.title = title,
                 !.pending = {"summarize", "translate"},
                 !.log = @ \o <<Ev("select")>> \o SummaryCalls(q, title, track)]

\* the handler from the response of getVideoInfo to its next await
AfterInfo(q) ==
  LET response == q.world.info
      settled == [q EXCEPT !.pending = {},
                           !.settled = Append(@, "player"),
                           !.log = Append(@, Ev(IF response.ok THEN "resp:player"
                                                ELSE "fail:player"))]
      captionTracks == response.data.captionTracks
  IN  IF ~response.ok THEN InfoFailed(settled, <<response.message>>)
      ELSE IF ~response.data.videoDetails
      THEN Fail(settled, <<"Could not fetch video details">>)
      ELSE IF ~captionTracks.defined \/ Len(captionTracks.list) = 0
      THEN Fail(settled, <<"No captions available for this video">>)
      ELSE LET selectedCaption == SelectFor(settled, captionTracks)
           IN  IF selectedCaption = Null
               THEN Fail(settled, <<"No suitable captions found">>)
               ELSE IF q.tool = "get_summary"
               THEN GetSummaryAndTitle(settled, response.data.title,
                                       captionTracks.list[selectedCaption])
               ELSE GetCaption([settled EXCEPT !.title = response.data.title],
                               captionTracks.list[selectedCaption])

\* this.parseXMLTranscript(transcriptResponse.data): the segments, or the
\* TypeError of xmlContent.includes for a body that is not a string
ParseBody(q, body) ==
  IF ~body.isString
  THEN [threw |-> TRUE, segments |-> <<>>]
  ELSE [threw |-> FALSE,
        segments |-> IF q.front = "mcp" THEN ServerParseXMLTranscript(body.text)
                     ELSE CliParseXMLTranscript(body.text)]

\* a mutant of TranscriptOutcome: a transcript without segments is an error
TranscriptOutcomeRejectingEmpty(q, segments) ==
  IF segments = <<>> THEN Fail(q, <<"No transcript">>)
  ELSE [q EXCEPT !.pc = "done",
                 !.outcome = [NoOutcome EXCEPT
                                !.status = "ok",
                                !.title = q.title,
                                !.captionType = IF q.selected.kind = Asr
                                                THEN "auto-generated" ELSE "manual",
                                !.segments = segments]]

\* the formatted transcript is returned (MCP server) or printed (CLI)
TranscriptOutcome(q, segments) ==
  [q EXCEPT !.pc = "done",
            !.outcome = [NoOutcome EXCEPT
                           !.status = "ok",
                           !.title = q.title,
                           !.captionType = IF q.selected.kind = Asr
                                           THEN "auto-generated" ELSE "manual",
                           !.segments = segments]]

\* the handler from the response of the caption fetch to its end
AfterCaption(q) ==
  LET response == q.world.caption
      settled == [q EXCEPT !.pending = {},
                           !.settled = Append(@, "caption"),
                           !.log = Append(@, Ev(IF response.ok THEN "resp:caption"
                                                ELSE "fail:caption"))]
  IN  IF ~response.ok THEN Fail(settled, <<response.message>>)
      ELSE LET parsing == [settled EXCEPT !.log = Append(@, Ev("parse"))]
               parsed == ParseBody(parsing, response.data)
           IN  IF parsed.threw
               THEN Fail(parsing, <<"xmlContent.includes is not a function">>)
               ELSE TranscriptOutcome(parsing, parsed.segments)

\* a || b for strings
OrElse(a, b) == IF a # "" THEN a ELSE b

\* the handler after Promise.all is fulfilled
AfterBoth(q) ==
  LET summaryData == q.world.summarize.data
      titleData == q.world.translate.data
      translatedTitle ==
        IF titleData.success
        THEN OrElse(titleData.result, OrElse(titleData.translation, q.title))
        ELSE q.title
      summaryText == OrElse(summaryData.summary, OrElse(summaryData.result, summaryData.content))
      reason == OrElse(summaryData.error, "No summary generated")
  IN  IF summaryText = ""
      THEN IF q.front = "mcp"
           THEN [q EXCEPT !.pc = "done",
                          !.outcome = [NoOutcome EXCEPT
                                         !.status = "error",
                                         !.text = <<"Error getting summary", reason>>]]
           ELSE Fail(q, <<"Summary generation failed", reason>>)
      ELSE [q EXCEPT !.pc = "done",
                     !.outcome = [NoOutcome EXCEPT !.status = "ok",
                                                   !.title = translatedTitle,
                                                   !.summary = summaryText]]

\* one of the two calls of Promise.all is settled: the first rejection
\* rejects the whole, the second fulfilment fulfils it, and what is settled
\* after the handler has returned is ignored
AfterSettle(q, call) ==
  LET response == IF call = "summarize" THEN q.world.summarize ELSE q.world.translate
      settled == [q EXCEPT !.pending = @ \ {call},
                           !.settled = Append(@, call),
                           !.log = Append(@, Ev(IF call = "summarize"
                                            THEN (IF response.ok THEN "resp:summarize"
                                                  ELSE "fail:summarize")
                                            ELSE (IF response.ok THEN "resp:translate"
                                                  ELSE "fail:translate")))]
  IN  IF q.pc # "both" THEN settled
      ELSE IF ~response.ok THEN Fail(settled, <<response.message>>)
      ELSE IF settled.pending = {} THEN AfterBoth(settled)
      ELSE settled

\* the handler from the response to the call to its next await
Step(q, call) ==
  IF call = "begin" THEN BeginStep(q)
  ELSE IF call = "player" THEN AfterInfo(q)
  ELSE IF call = "caption" THEN AfterCaption(q)
  ELSE AfterSettle(q, call)

\* a mutant of Locals: the selected caption is a field of the server
\* instance, written by every request
LocalsSharingSelection(reqs, r) ==
  LET writers == {s \in DOMAIN reqs : reqs[s].selected # NoTrack}
  IN  IF writers = {} THEN reqs[r]
      ELSE [reqs[r] EXCEPT !.selected = reqs[Leftmost(writers)].selected]

\* the arguments and local variables of the invocation r of a handler
Locals(reqs, r) == reqs[r]

(***************************************************************************)
(* The requests of a run and what their collaborators answer               *)
(***************************************************************************)
MaxRequests == 2

Fronts == {"mcp", "cli"}

Tools == {"get_transcript", "get_summary"}

VideoInputs == {VideoId, VideoUrl, BadInput, NoInput}

\* a caption track of a player response
Track(languageCode, kind, baseUrl) ==
  [languageCode |-> languageCode, kind |-> kind, baseUrl |-> baseUrl]

\* the captionTracks of the player responses
TracksManualEn == <<Track("en", NoKind, UrlTimedtext)>>

TracksAutoFrManualEn == <<Track("fr", Asr, UrlNoQuery), Track("en", NoKind, UrlTimedtext)>>

TracksAutoFrQuoted == <<Track("fr", Asr, UrlQuoted)>>

TracksManualFrAutoFr == <<Track("fr", NoKind, UrlNoQuery), Track("fr", Asr, UrlTimedtext)>>

TracksRelative == <<Track("en", Asr, UrlRelative)>>

\* response.data of the player endpoint
InfoData(videoDetails, defined, list) ==
  [videoDetails |-> videoDetails, title |-> IF videoDetails THEN "Title" ELSE "",
   captionTracks |-> [defined |-> defined, list |-> list]]

NoInfoData == InfoData(FALSE, FALSE, <<>>)

\* the responses of the player endpoint
InfoResponses ==
  {Rejected500(NoInfoData), RejectedTimeout(NoInfoData), Fulfilled(NoInfoData),
   Fulfilled(InfoData(TRUE, FALSE, <<>>)), Fulfilled(InfoData(TRUE, TRUE, <<>>)),
   Fulfilled(InfoData(TRUE, TRUE, TracksManualEn)),
   Fulfilled(InfoData(TRUE, TRUE, TracksAutoFrManualEn)),
   Fulfilled(InfoData(TRUE, TRUE, TracksAutoFrQuoted)),
   Fulfilled(InfoData(TRUE, TRUE, TracksManualFrAutoFr))}

\* transcriptResponse.data: a text, or a value that is not a string
TextBody(text) == [isString |-> TRUE, text |-> text]

NotAString == [isString |-> FALSE, text |-> <<>>]

\* a caption document of one paragraph of two syllables, one of a bracketed
\* paragraph, and an empty one
DocumentOfSyllables ==
  Document("body", <<[t |-> <<1634>>, content |-> Syl(<<"a">>) \o Syl(<<" ", "b">>)]>>)

DocumentOfBrackets ==
  Document("body", <<[t |-> <<1634>>, content |-> Syl(<<"[", "a", "]">>)]>>)

\* the responses of the caption fetch
CaptionResponses ==
  {Rejected500(NotAString), RejectedTimeout(NotAString),
   Fulfilled(TextBody(DocumentOfSyllables)), Fulfilled(TextBody(DocumentOfBrackets)),
   Fulfilled(TextBody(<<>>)), Fulfilled(NotAString)}

\* response.data of the summarize call
SummaryData(summary, error) ==
  [summary |-> summary, result |-> "", content |-> "", error |-> error]

SummarizeResponses ==
  {Rejected500(SummaryData("", "")), Fulfilled(SummaryData("Summary", "")),
   Fulfilled(SummaryData("", "E")), Fulfilled(SummaryData("", ""))}

\* response.data of the translate call
TitleData(success, result) == [success |-> success, result |-> result, translation |-> ""]

TranslateResponses ==
  {Rejected500(TitleData(FALSE, "")), RejectedTimeout(TitleData(FALSE, "")),
   Fulfilled(TitleData(TRUE, "Translated")), Fulfilled(TitleData(FALSE, ""))}

\* what the collaborators answer to the calls of one request
World(info, caption, summarize, translate) ==
  [info |-> info, caption |-> caption, summarize |-> summarize, translate |-> translate]

\* the requests for a transcript and for a summary, with the answers to the
\* calls they can make
TranscriptRequests ==
  {NewRequest(front, "get_transcript", input, language, Undefined,
              World(info, caption, Fulfilled(SummaryData("", "")), Fulfilled(TitleData(FALSE, "")))) :
     front \in Fronts, input \in VideoInputs, language \in {Undefined, "fr"},
     info \in InfoResponses, caption \in CaptionResponses}

SummaryRequests ==
  {NewRequest(front, "get_summary", input, language, mode,
              World(info, Fulfilled(NotAString), summarize, translate)) :
     front \in Fronts, input \in VideoInputs, language \in {Undefined, "fr"},
     mode \in {Undefined, "bullet"},
     info \in InfoResponses \cup {Fulfilled(InfoData(TRUE, TRUE, TracksRelative))},
     summarize \in SummarizeResponses, translate \in TranslateResponses}

\* the requests of the runs of several requests on one server instance
ConcurrentRequests ==
  {NewRequest("mcp", "get_transcript", VideoId, Undefined, Undefined,
              World(info, caption, Fulfilled(SummaryData("", "")), Fulfilled(TitleData(FALSE, "")))) :
     info \in {Fulfilled(InfoData(TRUE, TRUE, TracksManualEn)),
               Fulfilled(InfoData(TRUE, TRUE, TracksAutoFrQuoted))},
     caption \in {Fulfilled(TextBody(DocumentOfSyllables)), Rejected500(NotAString)}}
  \cup
  {NewRequest("mcp", "get_summary", VideoId, Undefined, Undefined,
              World(info, Fulfilled(NotAString), summarize, translate)) :
     info \in {Fulfilled(InfoData(TRUE, TRUE, TracksManualEn))},
     summarize \in {Fulfilled(SummaryData("Summary", "")), Rejected500(SummaryData("", ""))},
     translate \in {Fulfilled(TitleData(TRUE, "Translated")), Rejected500(TitleData(FALSE, "")),
                    RejectedTimeout(TitleData(FALSE, ""))}}

ReqStart ==
  /\ SelIdle
  /\ DecIdle
  /\ ParseIdle
  /\ FmtIdle
  /\ ProcIdle

\* one request
ReqInit ==
  /\ requests \in {<<q>> : q \in TranscriptRequests \cup SummaryRequests}
  /\ ReqStart

\* several requests on one server instance
ConcInit ==
  /\ requests \in UNION {[1..n -> ConcurrentRequests] : n \in 1..MaxRequests}
  /\ ReqStart

\* the request handler is called and runs to its first await
Begin(r) ==
  /\ requests[r].pc = "new"
  /\ requests' = [requests EXCEPT ![r] = Step(Locals(requests, r), "begin")]
  /\ UNCHANGED notReqVars

\* the response of the player endpoint arrives
InfoResponse(r) ==
  /\ "player" \in requests[r].pending
  /\ requests' = [requests EXCEPT ![r] = Step(Locals(requests, r), "player")]
  /\ UNCHANGED notReqVars

\* the response of the caption fetch arrives
CaptionResponse(r) ==
  /\ "caption" \in requests[r].pending
  /\ requests' = [requests EXCEPT ![r] = Step(Locals(requests, r), "caption")]
  /\ UNCHANGED notReqVars

\* the response of the summarize call arrives
SummarizeResponse(r) ==
  /\ "summarize" \in requests[r].pending
  /\ requests' = [requests EXCEPT ![r] = Step(Locals(requests, r), "summarize")]
  /\ UNCHANGED notReqVars

\* the response of the translate call arrives
TranslateResponse(r) ==
  /\ "translate" \in requests[r].pending
  /\ requests' = [requests EXCEPT ![r] = Step(Locals(requests, r), "translate")]
  /\ UNCHANGED notReqVars

ReqNext ==
  \E r \in DOMAIN requests :
     \/ Begin(r)
     \/ InfoResponse(r)
     \/ CaptionResponse(r)
     \/ SummarizeResponse(r)
     \/ TranslateResponse(r)

SpecReq == ReqInit /\ [][ReqNext]_vars

SpecConc == ConcInit /\ [][ReqNext]_vars

\* the names of the entries of the log of a request
LogNames(q) == [i \in DOMAIN q.log |-> q.log[i].ev]

Logged(q, name) == \E i \in DOMAIN q.log : q.log[i].ev = name

IsPrefix(s, t) == Len(s) <= Len(t) /\ SubSeq(t, 1, Len(s)) = s

\* the player response has video details and at least one caption track
HasTracks(q) ==
  /\ q.world.info.ok
  /\ q.world.info.data.videoDetails
  /\ q.world.info.data.captionTracks.defined
  /\ q.world.info.data.captionTracks.list # <<>>

\* C13: when the caption fetch has returned, the transcript request ends
\* without an error, and with an empty transcript when the body is not a
\* string.
C13_ParserNeverThrows ==
  \A r \in DOMAIN requests :
     LET q == requests[r]
     IN  (q.tool = "get_transcript" /\ q.pc = "done" /\ Logged(q, "resp:caption"))
           => /\ q.outcome.status = "ok"
              /\ ~q.world.caption.data.isString => q.outcome.segments = <<>>

\* what the parser of the front of the request makes of a text
ParserYields(q, text) ==
  IF q.front = "mcp" THEN ServerParseXMLTranscript(text) ELSE CliParseXMLTranscript(text)

\* C14: a transcript request whose fetches succeed and whose parser yields
\* no segment ends without an error and with an empty transcript; one whose
\* metadata fetch or caption fetch fails ends with an error.
C14_EmptyTranscriptIsNoError ==
  \A r \in DOMAIN requests :
     LET q == requests[r]
     IN  (q.tool = "get_transcript" /\ q.pc = "done" /\ q.log # <<>>)
           => /\ (/\ HasTracks(q)
                  /\ q.world.caption.ok
                  /\ q.world.caption.data.isString
                  /\ ParserYields(q, q.world.caption.data.text) = <<>>)
                   => /\ q.outcome.status = "ok"
                      /\ q.outcome.segments = <<>>
              /\ (~q.world.info.ok \/ (HasTracks(q) /\ ~q.world.caption.ok))
                   => q.outcome.status = "error"

\* C14 witness: a transcript request of the MCP server and a caption
\* document of a bracketed paragraph only, ended without an error and with
\* no segment
C14_Witness ==
  /\ Len(requests) = 1
  /\ requests[1].front = "mcp"
  /\ requests[1].tool = "get_transcript"
  /\ requests[1].pc = "done"
  /\ requests[1].world.caption = Fulfilled(TextBody(DocumentOfBrackets))
  /\ Logged(requests[1], "parse")
  /\ requests[1].outcome.status = "ok"
  /\ requests[1].outcome.segments = <<>>

\* what a transcript request does, from its start to its end
TranscriptRuns ==
  {<<>>,
   <<"post:player", "fail:player">>,
   <<"post:player", "resp:player">>,
   <<"post:player", "resp:player", "select", "get:caption", "fail:caption">>,
   <<"post:player", "resp:player", "select", "get:caption", "resp:caption", "parse">>}

\* C16: a transcript request issues the metadata request, selects a track
\* only after video details and a non-empty track list have returned,
\* fetches the captions only after the selection and parses only after the
\* caption fetch has returned; no call is issued twice, and a failure or a
\* missing datum ends the request with an error and without the later steps.
C16_TranscriptSequential ==
  \A r \in DOMAIN requests :
     LET q == requests[r]
     IN  q.tool = "get_transcript"
           => /\ \E run \in TranscriptRuns : IsPrefix(LogNames(q), run)
              /\ Logged(q, "select") => HasTracks(q)
              /\ q.pc = "done"
                   => /\ LogNames(q) \in TranscriptRuns
                      /\ ~Logged(q, "parse") => q.outcome.status \in {"error", "thrown"}
                      /\ (Logged(q, "post:player") /\ ~q.world.info.ok)
                           => LogNames(q) = <<"post:player", "fail:player">>
                      /\ (Logged(q, "post:player") /\ q.world.info.ok /\ ~HasTracks(q))
                           => LogNames(q) = <<"post:player", "resp:player">>
                      /\ (Logged(q, "get:caption") /\ ~q.world.caption.ok)
                           => /\ ~Logged(q, "parse")
                              /\ q.outcome.status = "error"

\* C16 witness: a transcript request of the CLI that went through all its
\* steps and printed a segment
C16_Witness ==
  /\ Len(requests) = 1
  /\ requests[1].front = "cli"
  /\ requests[1].tool = "get_transcript"
  /\ requests[1].pc = "done"
  /\ LogNames(requests[1])
       = <<"post:player", "resp:player", "select", "get:caption", "resp:caption", "parse">>
  /\ requests[1].outcome.status = "ok"
  /\ Len(requests[1].outcome.segments) = 1

\* the entry of the log is a network call
IsCall(e) == e.ev \in {"post:player", "get:caption", "get:summarize", "get:translate"}

\* the network calls of a request, in the order they were issued
Calls(q) ==
  LET calls == SelectSeq(q.log, IsCall)
  IN  [i \in DOMAIN calls |-> calls[i].ev]

QueryComponent(url) ==
  LET ends == {i \in DOMAIN url : url[i] = "#"} \cup {Len(url) + 1}
      end == CHOOSE i \in ends : \A j \in ends : i <= j
      marks == {i \in 1..(end - 1) : url[i] = "?"}
  IN  IF marks = {} THEN <<>>
      ELSE SubSeq(url, (CHOOSE i \in marks : \A j \in marks : i <= j) + 1, end - 1)

\* C18: the summarize and the translate request carry as X-Transcript-Arg
\* the query component of the locator of the selected track, unmodified,
\* with the language, the mode and the video id of the request.
C18_TranscriptArgIsQuery ==
  \A r \in DOMAIN requests :
     LET q == requests[r]
     IN  \A i \in DOMAIN q.log :
            q.log[i].ev \in {"get:summarize", "get:translate"}
              => /\ q.log[i].arg = QueryComponent(q.selected.baseUrl)
                 /\ q.log[i].lang = (IF q.lang = Undefined THEN "zh-tw" ELSE q.lang)
                 /\ q.log[i].mode = (IF q.mode = Undefined THEN "narrative" ELSE q.mode)
                 /\ q.log[i].v = q.videoId

\* the request as it arrived
Fresh(q) == NewRequest(q.front, q.tool, q.videoInput, q.lang, q.mode, q.world)

\* the request after the calls given were settled in this order
RECURSIVE Replay(_, _)
Replay(q, calls) ==
  IF calls = <<>> THEN q ELSE Replay(Step(q, Head(calls)), Tail(calls))

\* the request run alone, with the responses it got in the order it got them
RunAlone(q) ==
  IF q.pc = "new" THEN Fresh(q) ELSE Replay(Fresh(q), <<"begin">> \o q.settled)

FailedCall(q) ==
  LET fails == {i \in DOMAIN q.log : q.log[i].ev \in {"fail:summarize", "fail:translate"}}
  IN  IF fails = {} THEN ""
      ELSE IF q.log[CHOOSE i \in fails : \A j \in fails : i <= j].ev = "fail:summarize"
      THEN "summarize" ELSE "translate"

\* C19: what a summary request reports tells a failure of the summarize
\* call from a failure of the translate call.
C19_FailureAttributable ==
  \A r1, r2 \in DOMAIN requests :
     (/\ requests[r1].pc = "done"
      /\ requests[r2].pc = "done"
      /\ FailedCall(requests[r1]) = "summarize"
      /\ FailedCall(requests[r2]) = "translate")
       => requests[r1].outcome.text # requests[r2].outcome.text

(***************************************************************************)
(* Markup: one paragraph whose content has the characters of an <s> tag    *)
(* as entities, and an <s> element inside an <s> element                    *)
(***************************************************************************)

\* what the paragraph is made of: a syllable, a syllable whose text is
\* &lt;s&gt;, the inline text &lt;/s&gt;, the inline text "&lt;s ", and
\* <s><s>a</s></s>
MarkupItems ==
  {Syl(<<"a">>),
   Syl(<<"&", "l", "t", ";", "s", "&", "g", "t", ";">>),
   Str(<<"&", "l", "t", ";", "/", "s", "&", "g", "t", ";">>),
   Str(<<"&", "l", "t", ";", "s", " ">>),
   <<Open("s"), Open("s"), Ch("a"), Close("s"), Close("s")>>}

MarkupInit ==
  /\ envelope = "body"
  /\ paras \in {<<[t |-> <<1634>>, content |-> c]>> :
                  c \in Contents(MarkupItems, MaxItems)}
  /\ ParseStart

SpecMarkup == MarkupInit /\ [][ParseNext]_vars

\* the text has an <s> or </s> tag, or the characters "<s>", "</s>" or "<s "
HasSMarkup(text) ==
  \/ \E i \in DOMAIN text : IsSTag(text[i])
  \/ Includes(text, Str(<<"<", "s", ">">>))
  \/ Includes(text, Str(<<"<", "/", "s", ">">>))
  \/ Includes(text, Str(<<"<", "s", " ">>))

\* C21: no segment either parser emits has "<s>", "</s>" or "<s " in its
\* text, whatever the document.
C21_NoSyllableMarkup ==
  /\ "server" \in parseDone =>
       \A i \in DOMAIN serverOut : ~HasSMarkup(serverOut[i].text)
  /\ "cli" \in parseDone =>
       \A i \in DOMAIN cliOut : ~HasSMarkup(cliOut[i].text)

\* C22: the CLI's parseXMLTranscript and the MCP server's return the same
\* sequence of segments for every caption document.
C22_ParsersAgree ==
  parseDone = {"server", "cli"} => serverOut = cliOut

(***************************************************************************)
(* Video inputs: one request for each input, each collaborator answering   *)
(* with a success                                                           *)
(***************************************************************************)

\* the inputs of describe('extractVideoId') (src/src/index.test.ts:131-156)
WatchUrlWithTime == <<"h", "t", "t", "p", "s", ":", "/", "/", "w", "w",
  "w", ".", "y", "o", "u", "t", "u", "b", "e", ".", "c", "o", "m", "/",
  "w", "a", "t", "c", "h", "?", "v", "=", "d", "Q", "w", "4", "w", "9",
  "W", "g", "X", "c", "Q", "&", "t", "=", "3", "0", "s">>

ShortUrl == <<"h", "t", "t", "p", "s", ":", "/", "/", "y", "o", "u", "t",
  "u", ".", "b", "e", "/", "d", "Q", "w", "4", "w", "9", "W", "g", "X",
  "c", "Q">>

EmbedUrl == <<"h", "t", "t", "p", "s", ":", "/", "/", "w", "w", "w", ".",
  "y", "o", "u", "t", "u", "b", "e", ".", "c", "o", "m", "/", "e", "m",
  "b", "e", "d", "/", "d", "Q", "w", "4", "w", "9", "W", "g", "X", "c",
  "Q">>

\* a watch URL whose v parameter is not the first one
WatchUrlTimeFirst == <<"h", "t", "t", "p", "s", ":", "/", "/", "w", "w",
  "w", ".", "y", "o", "u", "t", "u", "b", "e", ".", "c", "o", "m", "/",
  "w", "a", "t", "c", "h", "?", "t", "=", "3", "0", "s", "&", "v", "=",
  "d", "Q", "w", "4", "w", "9", "W", "g", "X", "c", "Q">>

\* eleven characters that are not all of [a-zA-Z0-9_-]
ElevenCharacters == <<"h", "e", "l", "l", "o", " ", "w", "o", "r", "l",
  "d">>

\* an ID that is too short, alone and in a watch URL, and a URL of another
\* site
TenCharacters == <<"d", "Q", "w", "4", "w", "9", "W", "g", "X", "c">>

WatchUrlShortId == <<"h", "t", "t", "p", "s", ":", "/", "/", "w", "w", "w",
  ".", "y", "o", "u", "t", "u", "b", "e", ".", "c", "o", "m", "/", "w",
  "a", "t", "c", "h", "?", "v", "=", "d", "Q", "w", "4", "w", "9", "W",
  "g", "X", "c">>

OtherSiteUrl == <<"h", "t", "t", "p", "s", ":", "/", "/", "e", "x", "a",
  "m", "p", "l", "e", ".", "c", "o", "m", "/", "v", "/", "d", "Q", "w",
  "4", "w", "9", "W", "g", "X", "c", "Q">>

\* the inputs that have the ID dQw4w9WgXcQ in one of the supported formats
InputsOfVideoId ==
  {VideoId, VideoUrl, WatchUrlWithTime, WatchUrlTimeFirst, ShortUrl, EmbedUrl}

IdInputs ==
  InputsOfVideoId
    \cup {ElevenCharacters, TenCharacters, WatchUrlShortId, OtherSiteUrl, BadInput}

\* the requests: every input, to every operation
IdRequests ==
  {NewRequest(front, tool, input, Undefined, Undefined,
              World(Fulfilled(InfoData(TRUE, TRUE, TracksManualEn)),
                    Fulfilled(TextBody(DocumentOfSyllables)),
                    Fulfilled(SummaryData("Summary", "")),
                    Fulfilled(TitleData(TRUE, "Translated")))) :
     front \in Fronts, tool \in Tools, input \in IdInputs}

IdInit ==
  /\ requests \in {<<q>> : q \in IdRequests}
  /\ ReqStart

SpecId == IdInit /\ [][ReqNext]_vars

\* the operation of the request calls extractVideoId
Extracts(q) == ~(q.front = "mcp" /\ q.tool = "get_summary")

\* the text is eleven characters of [a-zA-Z0-9_-]
WellFormedId(id) == Len(id) = 11 /\ \A i \in DOMAIN id : id[i] \in IdChars

\* the request ended with 'Invalid YouTube URL or video ID' and made no call
ReportedInvalid(q) ==
  /\ q.pc = "done"
  /\ q.outcome.status = "error"
  /\ q.outcome.text[Len(q.outcome.text)] = "Invalid YouTube URL or video ID"
  /\ q.log = <<>>

\* C23: of an operation that calls extractVideoId: a direct ID, a watch URL
\* (also with further parameters), a short URL and an embed URL give the
\* ID; every ID returned is eleven characters of [a-zA-Z0-9_-]; every other
\* input is reported as invalid and no call is made.
C23_ExtractVideoId ==
  \A r \in DOMAIN requests :
     LET q == requests[r]
     IN  (Extracts(q) /\ q.pc # "new") =>
           /\ q.videoInput \in InputsOfVideoId => q.videoId = VideoId
           /\ q.videoId # NoId => WellFormedId(q.videoId)
           /\ q.videoInput \notin InputsOfVideoId => ReportedInvalid(q)

(***************************************************************************)
(* The command line: parseArgs and main of the CLI, main and runCLI of the *)
(* unified entry point.  An argument is a sequence of characters.          *)
(***************************************************************************)

\* the commands and the options
GetTranscript == <<"g", "e", "t", "-", "t", "r", "a", "n", "s", "c", "r",
  "i", "p", "t">>

GetSummary == <<"g", "e", "t", "-", "s", "u", "m", "m", "a", "r", "y">>

LangFlag == <<"-", "-", "l", "a", "n", "g">>

LangEquals == <<"-", "-", "l", "a", "n", "g", "=">>

ModeFlag == <<"-", "-", "m", "o", "d", "e">>

ModeEquals == <<"-", "-", "m", "o", "d", "e", "=">>

ServerFlag == <<"-", "-", "s", "e", "r", "v", "e", "r">>

HelpFlag == <<"-", "-", "h", "e", "l", "p">>

HelpShort == <<"-", "h">>

\* the summary modes
Narrative == <<"n", "a", "r", "r", "a", "t", "i", "v", "e">>

Bullet == <<"b", "u", "l", "l", "e", "t">>

\* language codes
En == <<"e", "n">>

ZhTw == <<"z", "h", "-", "t", "w">>

Fr == <<"f", "r">>

Ja == <<"j", "a">>

\* arg.startsWith(lit)
StartsWith(arg, lit) == StartsAt(arg, 1, lit)

\* arg.split('=')[1] of an argument with a "=": what is between the first
\* "=" and the second one, or the end
SplitEquals1(arg) ==
  LET first == Leftmost({i \in DOMAIN arg : arg[i] = "="})
      rest == SubSeq(arg, first + 1, Len(arg))
      second == Leftmost({i \in DOMAIN rest : rest[i] = "="})
  IN  IF second = 0 THEN rest ELSE SubSeq(rest, 1, second - 1)

\* if (modeValue === 'narrative' || modeValue === 'bullet') mode = modeValue
SetMode(mode, modeValue) == IF modeValue \in {Narrative, Bullet} THEN modeValue ELSE mode

\* the for loop of parseArgs from the argument i on (args[i - 1] of the code)
RECURSIVE ParseOptions(_, _, _, _)
ParseOptions(args, i, language, mode) ==
  IF i > Len(args) THEN [lang |-> language, mode |-> mode]
  ELSE LET arg == args[i]
       IN  IF StartsWith(arg, LangEquals)
           THEN ParseOptions(args, i + 1, SplitEquals1(arg), mode)
           ELSE IF arg = LangFlag /\ i + 1 <= Len(args)
           THEN ParseOptions(args, i + 2, args[i + 1], mode)
           ELSE IF StartsWith(arg, ModeEquals)
           THEN ParseOptions(args, i + 1, language, SetMode(mode, SplitEquals1(arg)))
           ELSE IF arg = ModeFlag /\ i + 1 <= Len(args)
           THEN ParseOptions(args, i + 2, language, SetMode(mode, args[i + 1]))
           ELSE ParseOptions(args, i + 1, language, mode)

\* parseArgs: exit is TRUE when it ends the process with status 1
ParseArgs(args) ==
  IF Len(args) = 0
  THEN [exit |-> TRUE, out |-> "usage", command |-> <<>>, videoInput |-> <<>>,
        lang |-> <<>>, mode |-> <<>>]
  ELSE IF Len(args) < 2 \/ args[2] = <<>>
  THEN [exit |-> TRUE, out |-> "Video URL or ID is required", command |-> args[1],
        videoInput |-> <<>>, lang |-> <<>>, mode |-> <<>>]
  ELSE LET options == ParseOptions(args, 3, <<>>, Narrative)
           language == IF options.lang # <<>> THEN options.lang
                       ELSE IF args[1] = GetTranscript THEN En ELSE ZhTw
       IN  [exit |-> FALSE, out |-> "", command |-> args[1], videoInput |-> args[2],
            lang |-> language, mode |-> options.mode]

\* code of a process that has not exited, and of one a signal has ended
NoCode == -1

\* a process of the CLI (node cli.js args) as it starts
NewCli(args) ==
  [args |-> args, pc |-> "start", command |-> <<>>, videoInput |-> <<>>,
   lang |-> <<>>, mode |-> <<>>, exitCode |-> NoCode, signal |-> "", out |-> ""]

\* process.exit(code) of a CLI process
CliExit(c, code, out) == [c EXCEPT !.pc = "exited", !.exitCode = code, !.out = out]

\* main of the CLI up to the await of its switch: parseArgs, and the default
\* branch for an unknown command
CliMain(c) ==
  LET parsed == ParseArgs(c.args)
  IN  IF parsed.exit THEN CliExit(c, 1, parsed.out)
      ELSE IF parsed.command \notin {GetTranscript, GetSummary}
      THEN CliExit(c, 1, "Unknown command")
      ELSE [c EXCEPT !.pc = "run", !.command = parsed.command,
                     !.videoInput = parsed.videoInput, !.lang = parsed.lang,
                     !.mode = parsed.mode]

\* a mutant of Route: --help anywhere among the arguments shows the help
RouteOnAnyArgument(args) ==
  IF Len(args) = 0 THEN "server"
  ELSE IF \E i \in DOMAIN args : args[i] \in {HelpFlag, HelpShort} THEN "help"
  ELSE IF args[1] = ServerFlag THEN "server"
  ELSE IF args[1] \in {GetTranscript, GetSummary} THEN "cli"
  ELSE "unknown"

\* the branch main of the unified entry point takes
Route(args) ==
  IF Len(args) = 0 THEN "server"
  ELSE IF args[1] = ServerFlag THEN "server"
  ELSE IF args[1] \in {GetTranscript, GetSummary} THEN "cli"
  ELSE IF args[1] \in {HelpFlag, HelpShort} THEN "help"
  ELSE "unknown"

\* process.exit(code) of the entry point
EntryExit(e, code, out) == [e EXCEPT !.pc = "exited", !.exitCode = code, !.out = out]

\* process.exit(code || 0) of the handler of the child's exit event; code
\* is null when a signal ended the child
ExitOfChild(code) == IF code = NoCode \/ code = 0 THEN 0 ELSE code

(***************************************************************************)
(* Processes of the CLI                                                     *)
(***************************************************************************)

\* main of a CLI process runs to its await, or to process.exit(1)
CliStart(p) ==
  /\ cliProcesses[p].pc = "start"
  /\ cliProcesses' = [cliProcesses EXCEPT ![p] = CliMain(@)]
  /\ UNCHANGED <<entry, notProcVars>>

\* getTranscript or getSummary ends: the process ends with status 0, or its
\* catch block calls process.exit(1)
CliFinish(p) ==
  /\ cliProcesses[p].pc = "run"
  /\ \E code \in {0, 1} :
       cliProcesses' = [cliProcesses EXCEPT
                          ![p] = CliExit(@, code, IF code = 0 THEN "result" ELSE "Error")]
  /\ UNCHANGED <<entry, notProcVars>>

\* a signal ends a CLI process: it has no exit code
CliKilled(p) ==
  /\ cliProcesses[p].pc \in {"start", "run"}
  /\ cliProcesses' = [cliProcesses EXCEPT
                        ![p] = [@ EXCEPT !.pc = "exited", !.signal = "SIGTERM"]]
  /\ UNCHANGED <<entry, notProcVars>>

(***************************************************************************)
(* Option formats: two CLI processes whose arguments differ only in the    *)
(* format of one option                                                     *)
(***************************************************************************)

\* the values of the option
OptionValues ==
  {Fr, ZhTw, Bullet, Narrative, <<"x">>, <<>>, <<"a", "=", "b">>,
   Bullet \o <<"=", "x">>}

\* the options before and after it
OtherOptions ==
  {<<>>, <<LangEquals \o Ja>>, <<LangFlag, Ja>>, <<ModeEquals \o Bullet>>,
   <<ModeFlag, Bullet>>}

\* --name=v and --name v
EqualsForm(name, v) == <<name \o <<"=">> \o v>>

PairForm(name, v) == <<name, v>>

ArgsInit ==
  /\ cliProcesses \in
       {<<NewCli(<<command, VideoId>> \o before \o EqualsForm(name, v) \o after),
          NewCli(<<command, VideoId>> \o before \o PairForm(name, v) \o after)>> :
          command \in {GetTranscript, GetSummary}, name \in {LangFlag, ModeFlag},
          v \in OptionValues, before \in OtherOptions, after \in OtherOptions}
  /\ entry = NoEntry
  /\ SelIdle
  /\ DecIdle
  /\ ParseIdle
  /\ FmtIdle
  /\ ReqIdle

ArgsNext == \E p \in DOMAIN cliProcesses : CliStart(p) \/ CliFinish(p)

SpecArgs == ArgsInit /\ [][ArgsNext]_vars

\* the arguments give bullet as the value of a mode option
GivesBullet(args) ==
  \E i \in 3..Len(args) :
     \/ args[i] = ModeEquals \o Bullet
     \/ args[i] = ModeFlag /\ i + 1 <= Len(args) /\ args[i + 1] = Bullet

\* C25: the two formats of an option give the same language and the same
\* mode, whatever its value and the options around it; the mode is bullet
\* only when bullet is given as a mode value, and narrative otherwise.
C25_OptionFormatsEquivalent ==
  (\A p \in DOMAIN cliProcesses : cliProcesses[p].pc = "run") =>
     /\ Len(cliProcesses) = 2 =>
          /\ cliProcesses[1].lang = cliProcesses[2].lang
          /\ cliProcesses[1].mode = cliProcesses[2].mode
     /\ \A p \in DOMAIN cliProcesses :
          /\ cliProcesses[p].mode \in {Narrative, Bullet}
          /\ cliProcesses[p].mode = Bullet => GivesBullet(cliProcesses[p].args)

(***************************************************************************)
(* The unified entry point: main routes on its arguments; in CLI mode it   *)
(* spawns a CLI process and exits when the child has exited                *)
(***************************************************************************)
MaxArgs == 2

\* the arguments the entry point is started with are made of
EntryArgs ==
  {ServerFlag, GetTranscript, GetSummary, HelpFlag, HelpShort,
   <<"s", "e", "r", "v", "e">>, VideoId, LangEquals \o Fr}

EntryInit ==
  /\ entry \in {[NoEntry EXCEPT !.args = a, !.pc = "start"] :
                  a \in UNION {[1..n -> EntryArgs] : n \in 0..MaxArgs}}
  /\ cliProcesses = <<>>
  /\ SelIdle
  /\ DecIdle
  /\ ParseIdle
  /\ FmtIdle
  /\ ReqIdle

\* main of the entry point.  runMCPServer imports the server module, which
\* starts the server, or fails and exits with status 1; runCLI spawns
\* node cli.js with the arguments, or the spawn fails
EntryMain ==
  /\ entry.pc = "start"
  /\ LET route == Route(entry.args)
     IN  \/ /\ route = "server"
            /\ \E imported \in BOOLEAN :
                 entry' = IF imported
                          THEN [entry EXCEPT !.pc = "server", !.started = @ \cup {"server"}]
                          ELSE [EntryExit(entry, 1, "Failed to start MCP server")
                                  EXCEPT !.started = @ \cup {"server"}]
            /\ UNCHANGED cliProcesses
         \/ /\ route = "cli"
            /\ \E spawned \in BOOLEAN :
                 /\ entry' = [entry EXCEPT !.pc = IF spawned THEN "cli" ELSE "cliError",
                                           !.started = @ \cup {"cli"}]
                 /\ cliProcesses' = IF spawned THEN Append(cliProcesses, NewCli(entry.args))
                                    ELSE cliProcesses
         \/ /\ route = "help"
            /\ entry' = EntryExit(entry, 0, "help")
            /\ UNCHANGED cliProcesses
         \/ /\ route = "unknown"
            /\ entry' = EntryExit(entry, 1, "Unknown command")
            /\ UNCHANGED cliProcesses
  /\ UNCHANGED notProcVars

\* child.on('exit', (code) => process.exit(code || 0))
EntryChildExit ==
  /\ entry.pc = "cli"
  /\ cliProcesses[1].pc = "exited"
  /\ entry' = EntryExit(entry, ExitOfChild(cliProcesses[1].exitCode), "")
  /\ UNCHANGED <<cliProcesses, notProcVars>>

\* child.on('error', ...): process.exit(1)
EntryChildError ==
  /\ entry.pc = "cliError"
  /\ entry' = EntryExit(entry, 1, "Failed to start CLI")
  /\ UNCHANGED <<cliProcesses, notProcVars>>

EntryNext ==
  \/ EntryMain
  \/ EntryChildExit
  \/ EntryChildError
  \/ \E p \in DOMAIN cliProcesses : CliStart(p) \/ CliFinish(p) \/ CliKilled(p)

SpecEntry == EntryInit /\ [][EntryNext]_vars

\* the first argument, none when there are no arguments
FirstArg == IF entry.args = <<>> THEN <<>> ELSE entry.args[1]

\* C26: once main of the entry point has run: without arguments or with
\* --server first the server is started and no CLI; with get-transcript or
\* get-summary first the CLI is run with exactly the arguments given and no
\* server is started; with --help or -h first the help is printed and the
\* status is 0; with anything else first an unknown-command error is printed,
\* the status is 1 and neither is started.
C26_RoutesOnFirstArgument ==
  entry.pc \notin {"none", "start"} =>
    /\ (entry.args = <<>> \/ FirstArg = ServerFlag) =>
         entry.started = {"server"} /\ cliProcesses = <<>>
    /\ FirstArg \in {GetTranscript, GetSummary} =>
         /\ entry.started = {"cli"}
         /\ Len(cliProcesses) <= 1
         /\ \A p \in DOMAIN cliProcesses : cliProcesses[p].args = entry.args
    /\ FirstArg \in {HelpFlag, HelpShort} =>
         /\ entry.pc = "exited" /\ entry.exitCode = 0 /\ entry.out = "help"
         /\ entry.started = {} /\ cliProcesses = <<>>
    /\ (entry.args # <<>> /\ FirstArg \notin {ServerFlag, GetTranscript, GetSummary,
                                              HelpFlag, HelpShort}) =>
         /\ entry.pc = "exited" /\ entry.exitCode = 1
         /\ entry.out = "Unknown command"
         /\ entry.started = {} /\ cliProcesses = <<>>

\* C26 witness: get-transcript --help runs the CLI with these two
\* arguments, and the CLI takes --help for the video input
C26_Witness ==
  /\ entry.args = <<GetTranscript, HelpFlag>>
  /\ entry.started = {"cli"}
  /\ Len(cliProcesses) = 1
  /\ cliProcesses[1].args = <<GetTranscript, HelpFlag>>
  /\ cliProcesses[1].pc = "run"
  /\ cliProcesses[1].videoInput = HelpFlag

\* the child process was started, and has ended with status 0 and without
\* a signal
ChildSucceeded ==
  /\ Len(cliProcesses) = 1
  /\ cliProcesses[1].pc = "exited"
  /\ cliProcesses[1].exitCode = 0
  /\ cliProcesses[1].signal = ""

\* C30: in CLI mode the entry point exits with status 0 only when the child
\* completed successfully, and with a status other than 0 when the child
\* failed, was ended by a signal or could not be started.
C30_ExitStatusOfChild ==
  (entry.pc = "exited" /\ "cli" \in entry.started) =>
     (entry.exitCode = 0 <=> ChildSucceeded)

\* the entries of the log of a request that are calls of the summarization
\* service
SummaryEntries(q) ==
  {i \in DOMAIN q.log : q.log[i].ev \in {"get:summarize", "get:translate"}}

\* the track the selector of the front of the request gives for the
\* preferred language
TrackFor(q, preferredLang) ==
  LET captionTracks == q.world.info.data.captionTracks
      selected == IF q.front = "mcp"
                  THEN ServerSelectBestCaption(captionTracks, preferredLang)
                  ELSE CliSelectBestCaption(captionTracks, preferredLang)
  IN  captionTracks.list[selected]

\* the command of the CLI for the tool of a request
CommandOf(q) == IF q.tool = "get_transcript" THEN GetTranscript ELSE GetSummary

\* C24: a summary request without lang calls the summarization service
\* with lang zh-tw, one without mode with mode narrative; a transcript
\* request without lang selects its track with preferred language en; the
\* CLI's parseArgs gives these values for a command without options.
C24_Defaults ==
  \A r \in DOMAIN requests :
     LET q == requests[r]
     IN  /\ (q.tool = "get_summary" /\ q.lang = Undefined) =>
              \A i \in SummaryEntries(q) : q.log[i].lang = "zh-tw"
         /\ (q.tool = "get_summary" /\ q.mode = Undefined) =>
              \A i \in SummaryEntries(q) : q.log[i].mode = "narrative"
         /\ (q.tool = "get_transcript" /\ q.lang = Undefined /\ q.selected # NoTrack) =>
              q.selected = TrackFor(q, "en")
         /\ (q.front = "cli" /\ q.lang = Undefined /\ q.mode = Undefined
               /\ q.videoInput # NoInput) =>
              LET parsed == ParseArgs(<<CommandOf(q), q.videoInput>>)
              IN  /\ ~parsed.exit
                  /\ parsed.lang = IF q.tool = "get_transcript" THEN En ELSE ZhTw
                  /\ parsed.mode = Narrative

\* C24 witness: an MCP summary request without lang and mode has issued its
\* two calls with zh-tw and narrative
C24_Witness ==
  /\ Len(requests) = 1
  /\ requests[1].front = "mcp"
  /\ requests[1].tool = "get_summary"
  /\ requests[1].lang = Undefined
  /\ requests[1].mode = Undefined
  /\ SummaryEntries(requests[1]) # {}
  /\ \A i \in SummaryEntries(requests[1]) :
        requests[1].log[i].lang = "zh-tw" /\ requests[1].log[i].mode = "narrative"

\* C27: a summary request resolves its video input as a transcript request
\* does: every call it issues carries the video ID extractVideoId gives for
\* the input, in the MCP server as in the CLI, and it issues no call for an
\* input without an ID.
C27_SummaryResolvesInput ==
  \A r \in DOMAIN requests :
     LET q == requests[r]
     IN  q.tool = "get_summary" =>
           \A i \in DOMAIN q.log :
              q.log[i].ev \in {"post:player", "get:summarize", "get:translate"} =>
                 /\ ExtractVideoId(q.videoInput) # NoId
                 /\ q.log[i].v = ExtractVideoId(q.videoInput)

(***************************************************************************)
(* Argument validation: one tool call of the MCP server, with arguments    *)
(* that are missing, empty or of another type, and collaborators that      *)
(* fail                                                                     *)
(***************************************************************************)

\* the tool calls
ValidationRequests ==
  {NewRequest("mcp", "get_transcript", input, language, mode,
              World(info, caption, Fulfilled(SummaryData("", "")), Fulfilled(TitleData(FALSE, "")))) :
     input \in {VideoId, NoInput, NumberInput},
     language \in {Undefined, "fr", NumberArg}, mode \in {Undefined, "x"},
     info \in {Fulfilled(InfoData(TRUE, TRUE, TracksManualEn)), Rejected500(NoInfoData),
               Fulfilled(NoInfoData)},
     caption \in {Fulfilled(TextBody(DocumentOfSyllables)), RejectedTimeout(NotAString),
                  Fulfilled(NotAString)}}
  \cup
  {NewRequest("mcp", "get_summary", input, language, mode,
              World(info, Fulfilled(NotAString), summarize, translate)) :
     input \in {VideoId, NoInput, NumberInput},
     language \in {Undefined, "fr", NumberArg},
     mode \in {Undefined, "bullet", "x", NumberArg},
     info \in {Fulfilled(InfoData(TRUE, TRUE, TracksManualEn)), Rejected500(NoInfoData),
               Fulfilled(InfoData(TRUE, TRUE, TracksRelative))},
     summarize \in {Fulfilled(SummaryData("Summary", "")), Rejected500(SummaryData("", "")),
                    Fulfilled(SummaryData("", ""))},
     translate \in {Fulfilled(TitleData(TRUE, "Translated")), Rejected500(TitleData(FALSE, ""))}}

ValidationInit ==
  /\ requests \in {<<q>> : q \in ValidationRequests}
  /\ ReqStart

SpecValidation == ValidationInit /\ [][ReqNext]_vars

\* the arguments the claim has rejected: videoId missing, empty or not a
\* string, lang present and not a string, mode (of get_summary) present and
\* neither narrative nor bullet
ArgumentsRejected(q) ==
  \/ q.videoInput \in {NoInput, NumberInput}
  \/ q.lang = NumberArg
  \/ q.tool = "get_summary" /\ q.mode \in {"x", NumberArg}

\* something failed in the handler: a call was rejected, the parser threw,
\* or the handler found nothing to go on with
Failed(q) ==
  \/ \E i \in DOMAIN q.log : q.log[i].ev \in {"fail:player", "fail:caption"}
  \/ /\ Logged(q, "resp:player")
     /\ ~HasTracks(q)
  \/ Logged(q, "parse") /\ ~q.world.caption.data.isString
  \/ q.pc = "done" /\ q.tool = "get_summary" /\ q.outcome.summary = ""

\* the prefix of the error messages of the tool
ErrorPrefix(q) ==
  IF q.tool = "get_summary" THEN "Error getting summary" ELSE "Error getting transcript"

\* C28: a tool call with rejected arguments ends with the InvalidParams
\* protocol error and issues no request; a call with other arguments never
\* throws, and what fails in it is returned as an error result whose message
\* has the prefix of the tool.
C28_ValidationFirst ==
  \A r \in DOMAIN requests :
     LET q == requests[r]
     IN  (q.front = "mcp" /\ q.pc # "new") =>
           /\ ArgumentsRejected(q) =>
                /\ q.pc = "done"
                /\ q.outcome.status = "thrown"
                /\ q.outcome.text = <<"McpError", "InvalidParams">>
                /\ q.log = <<>>
           /\ ~ArgumentsRejected(q) =>
                /\ q.outcome.status # "thrown"
                /\ (q.pc = "done" /\ Failed(q)) =>
                     /\ q.outcome.status = "error"
                     /\ q.outcome.text[1] = ErrorPrefix(q)
                /\ q.outcome.status = "error" => q.outcome.text[1] = ErrorPrefix(q)

\* C28 witness: a get_summary call with a mode that is neither narrative nor
\* bullet was rejected, and no request was issued
C28_Witness ==
  /\ Len(requests) = 1
  /\ requests[1].tool = "get_summary"
  /\ requests[1].videoInput = VideoId
  /\ requests[1].lang = Undefined
  /\ requests[1].mode = "x"
  /\ requests[1].outcome.status = "thrown"
  /\ requests[1].log = <<>>

(***************************************************************************)
(* Language of a summary: two summary requests that differ only in lang    *)
(***************************************************************************)

\* the values of lang
SummaryLangs == {Undefined, "en", "fr"}

\* the pairs of requests
LangPairs ==
  {<<NewRequest(front, "get_summary", VideoId, lang1, mode, world),
     NewRequest(front, "get_summary", VideoId, lang2, mode, world)>> :
     front \in Fronts, lang1 \in SummaryLangs, lang2 \in SummaryLangs,
     mode \in {Undefined, "bullet"},
     world \in {World(Fulfilled(InfoData(TRUE, TRUE, list)), Fulfilled(NotAString),
                      Fulfilled(SummaryData("Summary", "")),
                      Fulfilled(TitleData(TRUE, "Translated"))) :
                  list \in {TracksManualEn, TracksAutoFrManualEn, TracksAutoFrQuoted,
                            TracksManualFrAutoFr}}}

LangInit ==
  /\ requests \in {pair \in LangPairs : pair[1].lang # pair[2].lang}
  /\ ReqStart

\* a summary request makes no caption fetch
LangNext ==
  \E r \in DOMAIN requests :
     \/ Begin(r)
     \/ InfoResponse(r)
     \/ SummarizeResponse(r)
     \/ TranslateResponse(r)

SpecLang == LangInit /\ [][LangNext]_vars

\* the transcript arguments of the calls of a request to the summarization
\* service
TranscriptArgs(q) == {q.log[i].arg : i \in SummaryEntries(q)}

\* C29: two summary requests that differ only in lang select the same
\* caption track, the one for the preferred language en, and send the same
\* transcript argument; the lang of a request is in its summarize and
\* translate calls and in no other call.
C29_LangDoesNotSelect ==
  Len(requests) = 2 =>
    /\ (requests[1].selected # NoTrack /\ requests[2].selected # NoTrack) =>
         /\ requests[1].selected = requests[2].selected
         /\ requests[1].selected = TrackFor(requests[1], "en")
    /\ (SummaryEntries(requests[1]) # {} /\ SummaryEntries(requests[2]) # {}) =>
         TranscriptArgs(requests[1]) = TranscriptArgs(requests[2])
    /\ \A r \in DOMAIN requests : \A i \in DOMAIN requests[r].log :
         requests[r].log[i].lang =
           IF i \in SummaryEntries(requests[r]) THEN SummaryLang(requests[r]) ELSE ""

\* C29 witness: of two finished requests for a video with an auto-generated
\* fr track and a manual en track, the one with lang fr and the one without
\* lang have both selected the en track
C29_Witness ==
  /\ Len(requests) = 2
  /\ requests[1].lang = "fr"
  /\ requests[2].lang = Undefined
  /\ requests[1].world.info.data.captionTracks.list = TracksAutoFrManualEn
  /\ requests[1].pc = "done"
  /\ requests[2].pc = "done"
  /\ requests[1].selected = Track("en", NoKind, UrlTimedtext)
  /\ requests[2].selected = Track("en", NoKind, UrlTimedtext)
  /\ requests[1].outcome.status = "ok"

====
